---- MODULE Spec2Model ----
(***************************************************************************)
(* Model of mimi-context: the mimi-web front end (text utilities, search   *)
(* page, chat page, chat message rendering) and the ingestion / retrieval  *)
(* pipeline of mimi-core that the front end calls.                         *)
(*                                                                         *)
(* Strings are sequences of one-character strings, indexed from 1 here and *)
(* from 0 in the TypeScript source; every operator that takes or returns   *)
(* an index uses the source's 0-based indices.                             *)
(***************************************************************************)
EXTENDS Integers, Sequences, FiniteSets, Bags, TLC

VARIABLES
    \* ---- text utilities (utils/text.ts) ----
    snPc,          \* "input" | "generated" | "displayed"
    snText,        \* generateSnippet's text argument
    snQuery,       \* the query argument
    snMaxLength,   \* generateSnippet's maxLength argument
    snChunk,       \* getChunkDisplayText's chunk: [snippet, full_text]
    snResult,      \* the string returned by the call
    \* ---- one chat message (components/features/chat/ChatMessage.tsx) ----
    cmPc,          \* "props" | "rendered" | "clicked"
    cmContent,     \* the content prop
    cmSources,     \* the sources prop: [present, items]
    cmParsed,      \* parsedContent: plain characters and citation-marker spans
    cmClicked,     \* the source handleCitationClick found, NoSource before
    \* ---- search page (pages/Search.tsx) ----
    searchState,   \* [query, hasSearched]
    qCache,        \* useQuery's cache: query key -> [status, defined, chunks]
    qPrev,         \* useQuery's previous result, kept for keepPreviousData
    qInflight,     \* the query keys with a POST /rag/query in flight
    searches,      \* the searches submitted so far
    \* ---- chat page (pages/Chat.tsx) ----
    agentEnabled,  \* "null" | "true" | "false"
    messages,      \* the message list
    mutation,      \* useMutation's status: "idle" | "loading" | "success" | "error"
    askRequest,    \* the POST /agent/ask in flight, NoAsk when none
    askResponse,   \* what the backend made of the latest request
    \* ---- health tab (components/features/studio/HealthTab.tsx) ----
    hStatus,       \* useQuery's status: "loading" | "success" | "error"
    hData,         \* useQuery's data: the body of the last successful GET /health
    hError,        \* useQuery's error is set
    hFetching,     \* a GET /health is in flight
    hChecks,       \* number of GET /health requests issued
    \* ---- layout (components/layout/Layout.tsx) and the agent endpoint ----
    agentEndpoint,    \* what OPTIONS /agent/ask gets: a status code, 0 for no response
    navAgentEnabled,  \* Layout's agentEnabled, passed to Navigation
    navProbed,        \* Layout's probe has settled
    \* ---- keyboard and focus (hooks/useKeyboardShortcuts.ts, the forms) ----
    page,          \* the route shown: "search" | "chat" | "studio"
    focus,         \* document.activeElement
    sfQuestion,    \* the search form's question field
    ccQuestion,    \* the chat composer's question field
    kbEvent,       \* the last keydown event and whether its default was prevented
    kbTick,        \* flips at every keydown
    \* ---- mimi-core ingestion ----
    calls,         \* number of ingest calls received so far
    run,           \* per call: its input, its state and what it computed
    events,        \* per call: the ingestion events it appended, in order
    lock,          \* per document path: the call holding the document's lock, 0 if free
    registry,      \* Deduplicator: the registered fingerprints
    embedCalls,    \* Embedding Client: per fingerprint, how often it was embedded
    mdDocs,        \* Metadata Store: document records
    mdChunks,      \* Metadata Store: chunk records, by chunk id
    history,       \* per document path: the calls recorded, in order of completion
    \* ---- mimi-core stores ----
    vs,            \* the vector store: the chunk ids indexed
    \* ---- Confluence sync (components/features/ConfluenceSync.tsx) ----
    formData,      \* the form: [space_key, root_page_id]
    currentJobId,  \* the job id, 0 for null
    jobStatus,     \* the last status received: [job_id, status], NoStatus for null
    isRunning,     \* the running flag
    reports,       \* [failed, indexed, skipped]: the job each report is of, 0 if absent
    csStarts,      \* number of start requests in flight
    csPolls,       \* the status polls in flight: a bag of [job, reply]
    csCancels,     \* the jobs with a cancel request in flight
    csFetches,     \* the jobs whose fetchReports is in flight
    csJobs,        \* the server's jobs: job id -> status
    csIssued,      \* [starts, polls]: the requests issued so far
    csTerminal,    \* the jobs for which a terminal status has been received
    csLast,        \* the last handler that ran and the toasts it raised: [op, toasts]
    \* ---- upload tab (components/features/studio/UploadTab.tsx) ----
    recentUploads, \* the Recent Uploads list: [fileName, doc_id, chunks, timestamp]
    selectedFiles, \* the file field of the form: a sequence of file names
    upInflight,    \* the uploads in flight: a bag of file names
    upSent,        \* number of upload requests sent
    upReturned     \* the responses of the successful uploads, in order of arrival

textVars == <<snPc, snText, snQuery, snMaxLength, snChunk, snResult>>

messageVars == <<cmPc, cmContent, cmSources, cmParsed, cmClicked>>

searchVars == <<searchState, qCache, qPrev, qInflight, searches>>

chatVars == <<agentEnabled, messages, mutation, askRequest, askResponse>>

healthVars == <<hStatus, hData, hError, hFetching, hChecks>>

layoutVars == <<agentEndpoint, navAgentEnabled, navProbed>>

keyVars == <<page, focus, sfQuestion, ccQuestion, kbEvent, kbTick>>

ingestVars ==
    <<calls, run, events, lock, registry, embedCalls, mdDocs, mdChunks, history>>

storeVars == <<vs>>

syncVars ==
    <<formData, currentJobId, jobStatus, isRunning, reports, csStarts, csPolls,
      csCancels, csFetches, csJobs, csIssued, csTerminal, csLast>>

uploadVars ==
    <<recentUploads, selectedFiles, upInflight, upSent, upReturned>>

vars ==
    <<textVars, messageVars, searchVars, chatVars, healthVars, layoutVars, keyVars,
      ingestVars, storeVars, syncVars, uploadVars>>

\* what a step of one component leaves alone
TextFrame ==
    UNCHANGED <<healthVars, messageVars, searchVars, chatVars, layoutVars, keyVars, ingestVars,
                storeVars,
                syncVars,
                uploadVars>>

MessageFrame ==
    UNCHANGED <<healthVars, textVars, searchVars, chatVars, layoutVars, keyVars, ingestVars,
                storeVars,
                syncVars,
                uploadVars>>

SearchFrame ==
    UNCHANGED <<healthVars, textVars, messageVars, chatVars, layoutVars, keyVars, ingestVars,
                syncVars,
                uploadVars>>

ChatFrame ==
    UNCHANGED <<healthVars, textVars, messageVars, searchVars, layoutVars, keyVars, ingestVars,
                syncVars,
                uploadVars>>

IngestFrame ==
    UNCHANGED <<healthVars, textVars, messageVars, searchVars, chatVars, layoutVars, keyVars,
                syncVars,
                uploadVars>>

KeyFrame ==
    UNCHANGED <<healthVars, textVars, messageVars, layoutVars, ingestVars, storeVars,
                syncVars,
                uploadVars>>

LayoutFrame ==
    UNCHANGED <<healthVars, textVars, messageVars, searchVars, chatVars, keyVars, ingestVars,
                storeVars,
                syncVars,
                uploadVars>>

SyncFrame ==
    UNCHANGED <<healthVars, textVars, messageVars, searchVars, chatVars, layoutVars,
                keyVars, ingestVars, storeVars, uploadVars>>

UploadFrame ==
    UNCHANGED <<healthVars, textVars, messageVars, searchVars, chatVars, layoutVars,
                keyVars, ingestVars, storeVars, syncVars>>

----------------------------------------------------------------------------
(* Bounds of the model *)

MaxTextLen == 13
MaxQueryLen == 2
MaxWindow == 2
MaxContentLen == 6
MaxCitations == 2
MaxSearches == 2
MaxMessages == 4
MaxAttempts == 2
MaxTyped == 1
MaxHealthChecks == 5
MaxJobs == 2
MaxStarts == 2
MaxPolls == 2
MaxUploads == 6

(* Program constants *)

DefaultMaxLength == 250
Stride == 10
BoundarySlack == 20
\* config.confidenceThreshold and the scores, in hundredths
ConfidenceThreshold == 30

----------------------------------------------------------------------------
(* Characters and strings *)

\* an optional string field that is absent (undefined in the source): a value
\* that is no string of characters
Undefined == <<"undefined">>

Whitespace == {" "}

Min(a, b) == IF a < b THEN a ELSE b

Max(a, b) == IF a > b THEN a ELSE b

\* String.prototype.toLowerCase on one character
LowerChar(c) == IF c = "A" THEN "a" ELSE IF c = "B" THEN "b" ELSE c

toLowerCase(s) == [i \in 1..Len(s) |-> LowerChar(s[i])]

\* String.prototype.slice(a, b) for 0 <= a; b is clamped to the length
Slice(s, a, b) == SubSeq(s, a + 1, Min(b, Len(s)))

\* String.prototype.includes: w occurs in s as a substring
Includes(s, w) ==
    \E p \in 0..(Len(s) - Len(w)) : SubSeq(s, p + 1, p + Len(w)) = w

\* String.prototype.indexOf(c, from): first index >= from holding c, or -1
IndexOf(s, c, from) ==
    LET hits == {p \in Max(from, 0)..(Len(s) - 1) : s[p + 1] = c}
    IN  IF hits = {} THEN -1 ELSE CHOOSE p \in hits : \A q \in hits : p <= q

\* String.prototype.lastIndexOf(c, from): last index <= from holding c, or -1
LastIndexOf(s, c, from) ==
    LET hits == {p \in 0..Min(from, Len(s) - 1) : s[p + 1] = c}
    IN  IF hits = {} THEN -1 ELSE CHOOSE p \in hits : \A q \in hits : p >= q

\* String.prototype.trim
Trim(s) ==
    LET keep == {p \in 1..Len(s) : s[p] \notin Whitespace}
    IN  IF keep = {} THEN <<>>
        ELSE LET lo == CHOOSE p \in keep : \A q \in keep : p <= q
                 hi == CHOOSE p \in keep : \A q \in keep : p >= q
             IN  SubSeq(s, lo, hi)

\* s.split(/\s+/).filter(Boolean): the maximal runs of non-whitespace, in order
RECURSIVE SplitFrom(_, _, _)
SplitFrom(s, p, cur) ==
    IF p > Len(s) THEN (IF cur = <<>> THEN <<>> ELSE <<cur>>)
    ELSE IF s[p] \in Whitespace
         THEN (IF cur = <<>> THEN <<>> ELSE <<cur>>) \o SplitFrom(s, p + 1, <<>>)
         ELSE SplitFrom(s, p + 1, Append(cur, s[p]))

SplitWords(s) == SplitFrom(s, 1, <<>>)

Ellipsis == <<".", ".", ".">>

NoContentAvailable ==
    <<"N", "o", " ", "c", "o", "n", "t", "e", "n", "t", " ",
      "a", "v", "a", "i", "l", "a", "b", "l", "e">>

----------------------------------------------------------------------------
(* utils/text.ts: generateSnippet *)

\* the query's words, lower-cased (line 13)
QueryWords(query) == SplitWords(toLowerCase(query))

\* the reduce of lines 22-24: how many of the words occur in the window at i
WindowScore(text, query, i, maxLength) ==
    LET segment == Slice(toLowerCase(text), i, i + maxLength)
        words == QueryWords(query)
    IN  Cardinality({k \in 1..Len(words) : Includes(segment, words[k])})

\* the values i takes in the loop of line 20
ScannedStarts(text, maxLength) ==
    {i \in 0..(Len(text) - maxLength - 1) : i % Stride = 0}

\* lines 17-30: the first scanned start whose score is the highest, 0 when no
\* scanned window scores above 0
BestIndex(text, query, maxLength) ==
    LET starts == ScannedStarts(text, maxLength)
        scoring == {i \in starts : WindowScore(text, query, i, maxLength) > 0}
    IN  IF scoring = {} THEN 0
        ELSE CHOOSE i \in scoring :
                 \A j \in scoring :
                     \/ WindowScore(text, query, j, maxLength)
                            < WindowScore(text, query, i, maxLength)
                     \/ /\ WindowScore(text, query, j, maxLength)
                              = WindowScore(text, query, i, maxLength)
                        /\ i <= j

\* the word-boundary adjustment applied at index 0 as well
SnippetStart_FromZero(text, bestIndex) ==
    IF bestIndex >= 0
    THEN LET spaceIndex == LastIndexOf(text, " ", bestIndex + BoundarySlack)
         IN  IF spaceIndex > bestIndex THEN spaceIndex + 1 ELSE bestIndex
    ELSE bestIndex

\* lines 33-40: the start of the snippet after the word-boundary adjustment
SnippetStart(text, bestIndex) ==
    IF bestIndex > 0
    THEN LET spaceIndex == LastIndexOf(text, " ", bestIndex + BoundarySlack)
         IN  IF spaceIndex > bestIndex THEN spaceIndex + 1 ELSE bestIndex
    ELSE bestIndex

\* lines 34, 42-45: the end of the snippet after the word-boundary adjustment
SnippetEnd(text, bestIndex, maxLength) ==
    LET end == Min(bestIndex + maxLength, Len(text))
    IN  IF end < Len(text)
        THEN LET spaceIndex == IndexOf(text, " ", end - BoundarySlack)
             IN  IF spaceIndex > 0 /\ spaceIndex < Len(text)
                 THEN spaceIndex ELSE end
        ELSE end

generateSnippet(text, query, maxLength) ==
    IF text = <<>> \/ query = <<>>
    THEN Slice(text, 0, maxLength)
    ELSE LET bestIndex == BestIndex(text, query, maxLength)
             start == SnippetStart(text, bestIndex)
             end == SnippetEnd(text, bestIndex, maxLength)
             body == Trim(Slice(text, start, end))
         IN  (IF start > 0 THEN Ellipsis ELSE <<>>)
             \o body
             \o (IF end < Len(text) THEN Ellipsis ELSE <<>>)

\* getChunkDisplayText with the two tests swapped: the generated snippet wins
getChunkDisplayText_GeneratedFirst(chunk, query) ==
    IF chunk.full_text # Undefined /\ chunk.full_text # <<>>
    THEN generateSnippet(chunk.full_text, query, DefaultMaxLength)
    ELSE IF chunk.snippet # <<>> THEN chunk.snippet
         ELSE NoContentAvailable

\* utils/text.ts: getChunkDisplayText; full_text is optional
getChunkDisplayText(chunk, query) ==
    IF chunk.snippet # <<>> THEN chunk.snippet
    ELSE IF chunk.full_text # Undefined /\ chunk.full_text # <<>>
         THEN generateSnippet(chunk.full_text, query, DefaultMaxLength)
         ELSE NoContentAvailable

----------------------------------------------------------------------------
(* components/features/chat/ChatMessage.tsx: citation markers *)

Digits == {"0", "1", "2"}

DigitValue(c) == IF c = "0" THEN 0 ELSE IF c = "1" THEN 1 ELSE 2

\* parseInt(num, 10) of a string of digits
RECURSIVE ParseInt(_)
ParseInt(num) ==
    IF num = <<>> THEN 0
    ELSE 10 * ParseInt(SubSeq(num, 1, Len(num) - 1)) + DigitValue(num[Len(num)])

\* the length of the run of digits of content that starts at index p (0-based)
RECURSIVE DigitRun(_, _)
DigitRun(content, p) ==
    IF p < Len(content) /\ content[p + 1] \in Digits
    THEN 1 + DigitRun(content, p + 1)
    ELSE 0

\* the length of the match of /\[(\d+)\]/ at index p, 0 when there is none
MatchLength(content, p) ==
    LET d == DigitRun(content, p + 1)
    IN  IF /\ p < Len(content)
           /\ content[p + 1] = "["
           /\ d > 0
           /\ p + 1 + d < Len(content)
           /\ content[p + 2 + d] = "]"
        THEN d + 2
        ELSE 0

NoSources == [present |-> FALSE, items |-> <<>>]

PlainChar(p, c) == [kind |-> "char", at |-> p, text |-> <<c>>, index |-> -1]

\* the replacer of lines 304-310 with the bounds test dropped
ReplaceMarker_NoBounds(match, num, p, sources) ==
    [kind |-> "span", at |-> p, text |-> match, index |-> ParseInt(num) - 1]

\* the replacer of lines 304-310 for one match at index p: a citation-marker
\* span carrying data-index, or the match itself
ReplaceMarker(match, num, p, sources) ==
    LET index == ParseInt(num) - 1
    IN  IF index >= 0 /\ index < Len(sources.items)
        THEN [kind |-> "span", at |-> p, text |-> match, index |-> index]
        ELSE [kind |-> "plain", at |-> p, text |-> match, index |-> -1]

\* content.replace(/\[(\d+)\]/g, replacer): the matches from left to right
RECURSIVE ReplaceFrom(_, _, _)
ReplaceFrom(content, p, sources) ==
    IF p >= Len(content) THEN <<>>
    ELSE LET n == MatchLength(content, p)
         IN  IF n > 0
             THEN <<ReplaceMarker(Slice(content, p, p + n),
                                  Slice(content, p + 1, p + n - 1), p, sources)>>
                  \o ReplaceFrom(content, p + n, sources)
             ELSE <<PlainChar(p, content[p + 1])>>
                  \o ReplaceFrom(content, p + 1, sources)

\* the content with no match replaced
RECURSIVE Unparsed(_, _)
Unparsed(content, p) ==
    IF p >= Len(content) THEN <<>>
    ELSE <<PlainChar(p, content[p + 1])>> \o Unparsed(content, p + 1)

\* ChatMessage.parsedContent (lines 301-311)
parsedContent(content, sources) ==
    IF ~sources.present \/ Len(sources.items) = 0
    THEN Unparsed(content, 0)
    ELSE ReplaceFrom(content, 0, sources)

NoSource == [doc_id |-> 0, path |-> 0]

\* handleCitationClick (lines 313-319): the source logged, if any
handleCitationClick(index, sources) ==
    IF sources.present /\ index + 1 \in 1..Len(sources.items)
    THEN sources.items[index + 1]
    ELSE NoSource

----------------------------------------------------------------------------
(* mimi-core: Vector Store Adapter and Retrieval/RAG Engine                 *)

\* a document identifier is derived from (source, path)
DocId(source, path) == <<source, path>>

\* a chunk identifier is derived from document identifier, ordinal and content hash
ChunkId(docId, ordinal, hash) == <<docId[1], docId[2], ordinal, hash>>

DocOf(chunkId) == DocId(chunkId[1], chunkId[2])

\* the order of the source tags as strings: "confluence" < "upload"
SourceRank(source) == IF source = "confluence" THEN 1 ELSE 2

\* ascending chunk identifier
ChunkIdLess(a, b) ==
    LET ka == <<SourceRank(a[1]), a[2], a[3], a[4]>>
        kb == <<SourceRank(b[1]), b[2], b[3], b[4]>>
    IN  \E i \in 1..4 : ka[i] < kb[i] /\ \A j \in 1..(i - 1) : ka[j] = kb[j]

\* search's order: descending similarity score, ties by ascending chunk id
RankedBefore(a, b, sim) ==
    sim[a] > sim[b] \/ (sim[a] = sim[b] /\ ChunkIdLess(a, b))

RECURSIVE RankSeq(_, _)
RankSeq(S, sim) ==
    IF S = {} THEN <<>>
    ELSE LET first == CHOOSE c \in S : \A d \in S \ {c} : RankedBefore(c, d, sim)
         IN  <<first>> \o RankSeq(S \ {first}, sim)

Take(seq, n) == SubSeq(seq, 1, Min(n, Len(seq)))

NoFilters == [present |-> FALSE, source |-> ""]

\* Vector Store Adapter: search(query_vector, top_k, filters); sim is the
\* similarity of the query vector to each stored chunk
VectorSearch(store, sim, top_k, filters) ==
    LET allowed == {c \in store : ~filters.present \/ c[1] = filters.source}
    IN  Take(RankSeq(allowed, sim), top_k)

\* Metadata Store: get_chunk(chunk_id), the stored snippet and text of a chunk
StoredSnippet(chunkId) == IF chunkId[4] = 1 THEN <<"s">> ELSE <<>>

StoredFullText(chunkId) == IF chunkId[4] = 1 THEN Undefined ELSE <<"x", " ", "a">>

ResultChunk(chunkId, score) ==
    [chunk_id |-> chunkId, score |-> score,
     snippet |-> StoredSnippet(chunkId), full_text |-> StoredFullText(chunkId)]

\* Retrieval Engine: query(question, top_k, filters), the ranked result chunks
RagQuery(store, sim, top_k, filters) ==
    LET hits == VectorSearch(store, sim, top_k, filters)
    IN  [i \in 1..Len(hits) |-> ResultChunk(hits[i], sim[hits[i]])]

----------------------------------------------------------------------------
(* components/features/search/SearchResults.tsx                             *)

\* ResultItem with the test of low confidence dropped: such chunks not shown
SearchResultItems_HideLow(chunks, query) ==
    LET kept == SelectSeq(chunks, LAMBDA c : c.score >= ConfidenceThreshold)
    IN  [i \in 1..Len(kept) |->
            [chunk_id |-> kept[i].chunk_id, score |-> kept[i].score,
             isLowConfidence |-> FALSE,
             displayText |-> getChunkDisplayText(kept[i], query)]]

\* ResultItem (lines 195-203): what one result card shows
ResultItem(chunk, query) ==
    [chunk_id |-> chunk.chunk_id, score |-> chunk.score,
     isLowConfidence |-> chunk.score < ConfidenceThreshold,
     displayText |-> getChunkDisplayText(chunk, query)]

\* the result cards in the reverse of the response's order
SearchResultItems_Reversed(chunks, query) ==
    [i \in 1..Len(chunks) |-> ResultItem(chunks[Len(chunks) + 1 - i], query)]

\* chunks.map of lines 456-464
SearchResultItems(chunks, query) ==
    [i \in 1..Len(chunks) |-> ResultItem(chunks[i], query)]

\* SearchResults with the banner shown as soon as one result is low-confidence
SearchResults_AnyLow(chunks, query, loading) ==
    LET lowConfidenceResults ==
            SelectSeq(chunks, LAMBDA c : c.score < ConfidenceThreshold)
        showLowConfidenceWarning == Len(lowConfidenceResults) > 0
    IN  IF loading
        THEN [view |-> "skeleton", warning |-> FALSE, query |-> <<>>, items |-> <<>>]
        ELSE IF Len(chunks) = 0
        THEN [view |-> "empty", warning |-> FALSE, query |-> <<>>, items |-> <<>>]
        ELSE [view |-> "results", warning |-> showLowConfidenceWarning,
              query |-> query, items |-> SearchResultItems(chunks, query)]

\* SearchResults (lines 365-467): skeleton, empty card, or banner and result cards
SearchResults(chunks, query, loading) ==
    LET lowConfidenceResults ==
            SelectSeq(chunks, LAMBDA c : c.score < ConfidenceThreshold)
        showLowConfidenceWarning ==
            Len(lowConfidenceResults) = Len(chunks) /\ Len(chunks) > 0
    IN  IF loading
        THEN [view |-> "skeleton", warning |-> FALSE, query |-> <<>>, items |-> <<>>]
        ELSE IF Len(chunks) = 0
        THEN [view |-> "empty", warning |-> FALSE, query |-> <<>>, items |-> <<>>]
        ELSE [view |-> "results", warning |-> showLowConfidenceWarning,
              query |-> query, items |-> SearchResultItems(chunks, query)]

----------------------------------------------------------------------------
(* pages/Search.tsx                                                         *)

NoQuery == [question |-> <<>>, top_k |-> 0, filters |-> NoFilters]

NoEntry == [status |-> "none", defined |-> FALSE, chunks |-> <<>>]

\* useQuery({queryKey: ["search", query], enabled: !!query, keepPreviousData: true}):
\* the result for the current key, from its cache entry and the previous result
UseQuery(query, cache, prev) ==
    LET state == IF query = NoQuery THEN NoEntry ELSE cache[query]
        previous == /\ ~state.defined
                    /\ prev.isSuccess
                    /\ state.status # "error"
                    /\ query # NoQuery
    IN  IF previous
        THEN [data |-> prev.data, isSuccess |-> TRUE, isLoading |-> FALSE,
              isError |-> FALSE, isPreviousData |-> TRUE]
        ELSE [data |-> [defined |-> state.defined, chunks |-> state.chunks],
              isSuccess |-> state.status = "success",
              isLoading |-> state.status = "loading",
              isError |-> state.status = "error",
              isPreviousData |-> FALSE]

\* lines 56-57 and 77-94: what the page shows
SearchPageView(state, cache, prev) ==
    LET result == UseQuery(state.query, cache, prev)
        chunks == IF result.data.defined THEN result.data.chunks ELSE <<>>
        currentQuery == state.query.question
    IN  [error |-> result.isError,
         ready |-> ~state.hasSearched,
         results |-> IF state.hasSearched
                     THEN SearchResults(chunks, currentQuery, result.isLoading)
                     ELSE [view |-> "none", warning |-> FALSE, query |-> <<>>,
                           items |-> <<>>]]

----------------------------------------------------------------------------
(* mimi-core: Normalizer, Chunker, Deduplicator (spec sections 4.1 - 4.3)   *)

\* configuration recognized by the core
MaxUploadSize == 4
MaxChunkChars == 2
OverlapChars == 1

\* a byte that is not valid text
BadByte == "?"

Decodable(bytes) == \A i \in 1..Len(bytes) : bytes[i] # BadByte

\* normalize(raw_text, language_hint): redundant whitespace is collapsed
RECURSIVE Normalize(_)
Normalize(bytes) ==
    IF Len(bytes) <= 1 THEN bytes
    ELSE IF bytes[1] \in Whitespace /\ bytes[2] \in Whitespace
         THEN Normalize(Tail(bytes))
         ELSE <<bytes[1]>> \o Normalize(Tail(bytes))

\* the number of chunk drafts of a text of n characters
DraftCount(n, max_chunk_chars, overlap_chars) ==
    IF n <= max_chunk_chars THEN 1
    ELSE LET stride == max_chunk_chars - overlap_chars
             rest == n - max_chunk_chars
         IN  1 + (rest + stride - 1) \div stride

\* chunk(normalized_text, max_chunk_chars, overlap_chars): hard character
\* splits, each draft re-including the tail of the previous one; the texts of
\* the model have no paragraph or sentence boundary to prefer
Chunk(text, max_chunk_chars, overlap_chars) ==
    LET stride == max_chunk_chars - overlap_chars
    IN  [i \in 1..DraftCount(Len(text), max_chunk_chars, overlap_chars) |->
            LET char_start == (i - 1) * stride
                char_end == Min(char_start + max_chunk_chars, Len(text))
            IN  [ordinal |-> i, char_start |-> char_start, char_end |-> char_end,
                 text |-> SubSeq(text, char_start + 1, char_end)]]

CharCode(c) == IF c = "a" THEN 1 ELSE IF c = "b" THEN 2 ELSE 3

\* a stable hash of a text
RECURSIVE ContentHash(_)
ContentHash(text) ==
    IF text = <<>> THEN 0 ELSE CharCode(text[1]) + 4 * ContentHash(Tail(text))

\* fingerprint: the content hash of the case-folded, whitespace-collapsed text
Fingerprint(text) == ContentHash(Normalize(toLowerCase(text)))

\* the chunk identifiers of a document's drafts
ChunkIdsOf(docId, drafts) ==
    {ChunkId(docId, drafts[i].ordinal, ContentHash(drafts[i].text)) :
        i \in 1..Len(drafts)}

\* the chunks a store holds for a document
ChunksOfDoc(store, docId) == {c \in store : DocOf(c) = docId}

----------------------------------------------------------------------------
(* mimi-core: ask(question, top_k) -> {answer, citations, raw_chunks}       *)

\* the answer of a degraded ask: empty, or this marker
DegradationMarker ==
    <<"L", "L", "M", " ", "u", "n", "a", "v", "a", "i", "l", "a",
      "b", "l", "e">>

DegradedAnswers == {<<>>, DegradationMarker}

\* answers of the LLM, with [n] markers
LlmAnswers == {<<"x">>, <<"[", "1", "]">>, <<"[", "2", "]", "[", "0", "]">>}

\* the citation list aligned to the chunk ranks
CitationsOf(chunks) ==
    [i \in 1..Len(chunks) |->
        [doc_id |-> DocOf(chunks[i].chunk_id), path |-> chunks[i].chunk_id[2]]]

NoResponse ==
    [state |-> "none", llm |-> "notcalled", answer |-> <<>>, citations |-> <<>>,
     raw_chunks |-> <<>>]

\* the query failed in embedding or vector search: a single typed error
AskError == [NoResponse EXCEPT !.state = "error"]

\* ask with the answer synthesised by the LLM backend, or degraded when the
\* backend is unreachable: the ranked chunks are returned either way
AskResult(chunks, llm, answer, withCitations) ==
    [state |-> "ok", llm |-> llm, answer |-> answer,
     citations |-> IF llm = "reachable" \/ withCitations
                   THEN CitationsOf(chunks) ELSE <<>>,
     raw_chunks |-> chunks]

----------------------------------------------------------------------------
(* pages/Chat.tsx                                                           *)

NoAsk == [question |-> <<>>, top_k |-> 0]

NoList == [present |-> FALSE, items |-> <<>>]

SomeList(items) == [present |-> TRUE, items |-> items]

\* handleSendMessage's userMessage (lines 67-72)
UserMessage(question) ==
    [type |-> "user", content |-> question, sources |-> NoList, rawChunks |-> NoList]

\* onSuccess's message with the raw chunks left out
AssistantMessage_NoRawChunks(data) ==
    [type |-> "assistant", content |-> data.answer,
     sources |-> SomeList(data.citations), rawChunks |-> NoList]

\* onSuccess's assistantMessage (lines 42-49)
AssistantMessage(data) ==
    [type |-> "assistant", content |-> data.answer,
     sources |-> SomeList(data.citations), rawChunks |-> SomeList(data.raw_chunks)]

SorryPrefix ==
    <<"S", "o", "r", "r", "y", ",", " ", "I", " ", "e", "n", "c",
      "o", "u", "n", "t", "e", "r", "e", "d", " ", "a", "n", " ",
      "e", "r", "r", "o", "r", ":", " ">>

RequestFailedText ==
    <<"R", "e", "q", "u", "e", "s", "t", " ", "f", "a", "i", "l",
      "e", "d">>

\* onError's errorMessage (lines 54-59)
ErrorMessage(errorText) ==
    [type |-> "assistant", content |-> SorryPrefix \o errorText,
     sources |-> NoList, rawChunks |-> NoList]

\* apiService.checkAgentAvailability (lines 112-120 of services/api.ts): the
\* outcome of OPTIONS /agent/ask is a status code, or 0 for no response
checkAgentAvailability(outcome) ==
    IF outcome = 200 THEN TRUE ELSE outcome # 404

\* the raw-chunks debug card of a message (lines 171-180), with the toggle on
RawChunksShown(message) ==
    IF message.rawChunks.present /\ Len(message.rawChunks.items) > 0
    THEN message.rawChunks.items ELSE <<>>

----------------------------------------------------------------------------
(* Each component before it is used: the state it has in the specifications *)
(* of the other components                                                  *)

NoChunk == [snippet |-> <<>>, full_text |-> Undefined]

\* the text utilities before any call (the other components' specifications)
IdleText ==
    /\ snPc = "idle"
    /\ snText = <<>>
    /\ snQuery = <<>>
    /\ snMaxLength = DefaultMaxLength
    /\ snChunk = NoChunk
    /\ snResult = <<>>

IdleMessage ==
    /\ cmPc = "idle"
    /\ cmContent = <<>>
    /\ cmSources = NoSources
    /\ cmParsed = <<>>
    /\ cmClicked = NoSource

Questions == {<<"a">>, <<"x">>}

TopKOptions == {3, 5, 8}

\* the top_k values the user picks in the model: the default and one other
TopKChoices == {k \in TopKOptions : k <= 5}

SourceInputs == {"", "upload"}

\* handleSearch's request for one submitted form (lines 33-37)
SearchRequest(question, top_k, source) ==
    [question |-> question, top_k |-> top_k,
     filters |-> IF source # "" THEN [present |-> TRUE, source |-> source]
                 ELSE NoFilters]

SearchKeys ==
    {SearchRequest(q, k, src) : q \in Questions, k \in TopKChoices, src \in SourceInputs}

NoPrevious == [isSuccess |-> FALSE, data |-> [defined |-> FALSE, chunks |-> <<>>]]

IdleSearch ==
    /\ searchState = [query |-> NoQuery, hasSearched |-> FALSE]
    /\ qCache = [k \in SearchKeys |-> NoEntry]
    /\ qPrev = NoPrevious
    /\ qInflight = {}
    /\ searches = 0

NoHealthData == [defined |-> FALSE, status |-> "", timestamp |-> 0]

\* the health tab's query before the tab is mounted
IdleHealth ==
    /\ hStatus = "loading"
    /\ hData = NoHealthData
    /\ hError = FALSE
    /\ hFetching = FALSE
    /\ hChecks = 0

HealthFrame ==
    UNCHANGED <<textVars, messageVars, searchVars, chatVars, layoutVars, keyVars,
                ingestVars, storeVars,
                syncVars,
                uploadVars>>

\* Layout as mounted (line 115), with the agent endpoint answering
IdleLayout ==
    /\ agentEndpoint = 200
    /\ navAgentEnabled = FALSE
    /\ navProbed = FALSE

IdleChat ==
    /\ agentEnabled = "null"
    /\ messages = <<>>
    /\ mutation = "idle"
    /\ askRequest = NoAsk
    /\ askResponse = NoResponse

NoKey == [key |-> "", mod |-> "none", prevented |-> FALSE]

\* a page as mounted: nothing focused, the forms at their default values
OnPage(route) ==
    /\ page = route
    /\ focus = "body"
    /\ sfQuestion = <<>>
    /\ ccQuestion = <<>>
    /\ kbEvent = NoKey
    /\ kbTick = 0

\* the application as loaded: "/" redirects to /search (App.tsx)
IdleKeys == OnPage("search")

Attempts == 1..MaxAttempts

\* the paths of the uploaded documents
Paths == {1, 2}

NoRun ==
    [pc |-> "idle", path |-> 0, bytes |-> <<>>, text |-> <<>>, drafts |-> <<>>,
     fresh |-> {}, document_id |-> <<>>, chunk_count |-> 0, stored |-> {},
     concurrent |-> FALSE, tries |-> 0, embed_failed |-> FALSE,
     before |-> [vs |-> {}, md |-> {}], after |-> [vs |-> {}, md |-> {}]]

IdleIngest ==
    /\ calls = 0
    /\ run = [a \in Attempts |-> NoRun]
    /\ events = [a \in Attempts |-> <<>>]
    /\ lock = [p \in Paths |-> 0]
    /\ registry = {}
    /\ embedCalls = [f \in {} |-> 0]
    /\ mdDocs = {}
    /\ mdChunks = {}
    /\ history = [p \in Paths |-> <<>>]

IdleStores ==
    /\ vs = {}

\* useState(null) of jobStatus (line 36)
NoStatus == [job_id |-> 0, status |-> ""]

\* useState({}) of reports (lines 39-43)
NoReports == [failed |-> 0, indexed |-> 0, skipped |-> 0]

NoSyncEvent == [op |-> "", toasts |-> {}]

\* ConfluenceSync as mounted (lines 24-43), with no job on the server
IdleSync ==
    /\ formData = [space_key |-> "", root_page_id |-> ""]
    /\ currentJobId = 0
    /\ jobStatus = NoStatus
    /\ isRunning = FALSE
    /\ reports = NoReports
    /\ csStarts = 0
    /\ csPolls = EmptyBag
    /\ csCancels = {}
    /\ csFetches = {}
    /\ csJobs = <<>>
    /\ csIssued = [starts |-> 0, polls |-> 0]
    /\ csTerminal = {}
    /\ csLast = NoSyncEvent

\* UploadTab as mounted (lines 26-41)
IdleUpload ==
    /\ recentUploads = <<>>
    /\ selectedFiles = <<>>
    /\ upInflight = EmptyBag
    /\ upSent = 0
    /\ upReturned = <<>>

----------------------------------------------------------------------------
(* Inputs and steps of one chat message *)

ContentChars == {"[", "]"} \cup Digits

Contents == UNION {[1..n -> ContentChars] : n \in 0..MaxContentLen}

\* the citation the backend lists at rank i
Citation(i) == [doc_id |-> i, path |-> i]

SourceLists ==
    {NoSources}
    \cup {[present |-> TRUE, items |-> [i \in 1..k |-> Citation(i)]] :
              k \in 0..MaxCitations}

InitMessage ==
    /\ cmPc = "props"
    /\ cmContent \in Contents
    /\ cmSources \in SourceLists
    /\ cmParsed = <<>>
    /\ cmClicked = NoSource
    /\ IdleText /\ IdleSearch /\ IdleChat /\ IdleHealth /\ IdleLayout /\ IdleKeys /\ IdleIngest /\ IdleStores
    /\ IdleSync
    /\ IdleUpload

\* ChatMessage renders its props
RenderMessage ==
    /\ cmPc = "props"
    /\ cmPc' = "rendered"
    /\ cmParsed' = parsedContent(cmContent, cmSources)
    /\ UNCHANGED <<cmContent, cmSources, cmClicked>>
    /\ MessageFrame

\* the onClick of lines 346-352 on one citation-marker span of the message
ClickCitation ==
    /\ cmPc = "rendered"
    /\ \E k \in 1..Len(cmParsed) :
          /\ cmParsed[k].kind = "span"
          /\ cmClicked' = handleCitationClick(cmParsed[k].index, cmSources)
    /\ cmPc' = "clicked"
    /\ UNCHANGED <<cmContent, cmSources, cmParsed>>
    /\ MessageFrame

NextMessage ==
    \/ RenderMessage
    \/ ClickCitation

SpecMessage == InitMessage /\ [][NextMessage]_vars

----------------------------------------------------------------------------
(* Steps of the search page *)

\* an index holding an uploaded document and a Confluence page, one chunk each
SearchCorpus ==
    {ChunkId(DocId("upload", 1), 1, 2), ChunkId(DocId("confluence", 1), 1, 1)}

Scores == {20, 30, 40}

InitSearch ==
    /\ IdleSearch
    /\ vs \in {{}, SearchCorpus}
    /\ IdleText /\ IdleMessage /\ IdleChat /\ IdleHealth /\ IdleLayout /\ IdleKeys /\ IdleIngest
    /\ IdleSync
    /\ IdleUpload

\* the form is submitted (SearchForm.handleFormSubmit, SearchPage.handleSearch);
\* useQuery then observes the new key and fetches it
HandleSearch ==
    /\ searches < MaxSearches
    /\ \E question \in Questions, top_k \in TopKChoices, source \in SourceInputs :
          LET query == SearchRequest(question, top_k, source)
              old == UseQuery(searchState.query, qCache, qPrev)
          IN  /\ searchState' = [query |-> query, hasSearched |-> TRUE]
              /\ IF query = searchState.query
                 THEN UNCHANGED <<qCache, qPrev, qInflight>>
                 ELSE /\ qPrev' = [isSuccess |-> old.isSuccess, data |-> old.data]
                      /\ qCache' = [qCache EXCEPT ![query] =
                                       IF @.defined THEN @
                                       ELSE [@ EXCEPT !.status = "loading"]]
                      /\ qInflight' = qInflight \cup {query}
    /\ searches' = searches + 1
    /\ UNCHANGED storeVars
    /\ SearchFrame

\* POST /rag/query answers: the engine's ranked chunks for the request
QuerySucceeds ==
    /\ \E query \in qInflight, sim \in [SearchCorpus -> Scores] :
          /\ qCache' = [qCache EXCEPT ![query] =
                           [status |-> "success", defined |-> TRUE,
                            chunks |-> RagQuery(vs, sim, query.top_k, query.filters)]]
          /\ qInflight' = qInflight \ {query}
    /\ UNCHANGED <<searchState, qPrev, searches>>
    /\ UNCHANGED storeVars
    /\ SearchFrame

\* POST /rag/query fails (after useQuery's retries)
QueryFails ==
    /\ \E query \in qInflight :
          /\ qCache' = [qCache EXCEPT ![query].status = "error"]
          /\ qInflight' = qInflight \ {query}
    /\ UNCHANGED <<searchState, qPrev, searches>>
    /\ UNCHANGED storeVars
    /\ SearchFrame

NextSearch ==
    \/ HandleSearch
    \/ QuerySucceeds
    \/ QueryFails

SpecSearch == InitSearch /\ [][NextSearch]_vars

----------------------------------------------------------------------------
(* Steps of the chat page *)

ProbeOutcomes == {200, 404, 500, 0}

InitChat ==
    /\ IdleChat
    /\ IdleHealth
    /\ agentEndpoint \in ProbeOutcomes
    /\ navAgentEnabled = FALSE
    /\ navProbed = FALSE
    /\ vs \in {{}, SearchCorpus}
    /\ OnPage("chat")
    /\ IdleText /\ IdleMessage /\ IdleSearch /\ IdleIngest
    /\ IdleSync
    /\ IdleUpload

\* the effect of lines 34-37: the probe of /agent/ask settles
CheckAgentAvailability ==
    /\ agentEnabled = "null"
    /\ agentEnabled' = IF checkAgentAvailability(agentEndpoint) THEN "true" ELSE "false"
    /\ UNCHANGED <<messages, mutation, askRequest, askResponse>>
    /\ UNCHANGED storeVars
    /\ ChatFrame

\* ChatPage.handleSendMessage (lines 65-78): the user message is appended and
\* the mutation started
handleSendMessage(question, top_k) ==
    /\ messages' = Append(messages, UserMessage(question))
    /\ askRequest' = [question |-> question, top_k |-> top_k]
    /\ mutation' = "loading"
    /\ askResponse' = NoResponse
    /\ UNCHANGED agentEnabled

\* the composer submitting although a request is in flight
HandleSendMessage_WhileLoading ==
    /\ agentEnabled = "true"
    /\ Len(messages) + 2 <= MaxMessages
    /\ \E question \in Questions, top_k \in TopKChoices :
          handleSendMessage(question, top_k)
    /\ UNCHANGED storeVars
    /\ ChatFrame

\* the composer submits a question (ChatComposer.handleFormSubmit,
\* ChatPage.handleSendMessage); the composer is disabled while mutation.isLoading
HandleSendMessage ==
    /\ agentEnabled = "true"
    /\ mutation # "loading"
    /\ Len(messages) + 2 <= MaxMessages
    /\ \E question \in Questions, top_k \in TopKChoices :
          handleSendMessage(question, top_k)
    /\ UNCHANGED storeVars
    /\ ChatFrame

\* mimi-core handles POST /agent/ask: retrieval, then answer synthesis
AskHandled ==
    /\ askRequest # NoAsk
    /\ askResponse = NoResponse
    /\ \/ askResponse' = AskError
       \/ \E sim \in [SearchCorpus -> Scores] :
             LET chunks == RagQuery(vs, sim, askRequest.top_k, NoFilters)
             IN  \/ \E answer \in LlmAnswers :
                       askResponse' = AskResult(chunks, "reachable", answer, TRUE)
                 \/ \E answer \in DegradedAnswers, withCitations \in BOOLEAN :
                       askResponse' =
                           AskResult(chunks, "unreachable", answer, withCitations)
    /\ UNCHANGED <<agentEnabled, messages, mutation, askRequest>>
    /\ UNCHANGED storeVars
    /\ ChatFrame

\* the response arrives: useMutation's onSuccess (lines 41-52)
MutationSucceeds ==
    /\ askRequest # NoAsk
    /\ askResponse.state = "ok"
    /\ messages' = Append(messages, AssistantMessage(askResponse))
    /\ mutation' = "success"
    /\ askRequest' = NoAsk
    /\ UNCHANGED <<agentEnabled, askResponse>>
    /\ UNCHANGED storeVars
    /\ ChatFrame

\* the request is rejected (an error response, or no response): onError (lines 53-62)
MutationFails ==
    /\ askRequest # NoAsk
    /\ askResponse.state \in {"error", "none"}
    /\ messages' = Append(messages, ErrorMessage(RequestFailedText))
    /\ mutation' = "error"
    /\ askRequest' = NoAsk
    /\ UNCHANGED <<agentEnabled, askResponse>>
    /\ UNCHANGED storeVars
    /\ ChatFrame

NextChat ==
    \/ CheckAgentAvailability
    \/ HandleSendMessage
    \/ AskHandled
    \/ MutationSucceeds
    \/ MutationFails

SpecChat == InitChat /\ [][NextChat]_vars

----------------------------------------------------------------------------
(* Steps of the Ingestion Orchestrator (spec sections 4.6, 5, 7) *)

\* the raw_bytes of the uploads: empty, oversized, undecodable, and three texts
Uploads ==
    { <<>>,
      <<"a", "b", "a", "b", "a">>,
      <<"a", BadByte>>,
      <<"a", "b">>,
      <<"a", "b", "a">>,
      <<"b", " ", " ", "a">> }

UploadDoc(path) == DocId("upload", path)

InitIngest ==
    /\ IdleIngest
    /\ IdleStores
    /\ IdleText /\ IdleMessage /\ IdleSearch /\ IdleChat /\ IdleHealth /\ IdleLayout /\ IdleKeys
    /\ IdleSync
    /\ IdleUpload

\* the events of a transition, with the error events left out
StageEvent_ErrorsDropped(status, stage) ==
    IF status = "error" THEN <<>> ELSE <<[status |-> status, stage |-> stage]>>

\* the events a transition appends: one per transition
StageEvent(status, stage) == <<[status |-> status, stage |-> stage]>>

Emit(a, status, stage) ==
    events' = [events EXCEPT ![a] = events[a] \o StageEvent(status, stage)]

\* no mutual exclusion: the lock is taken whoever holds it
LockFree_Always(path) == TRUE

\* the document's lock is free
LockFree(path) == lock[path] = 0

Active(a) ==
    run[a].pc \in {"received", "normalized", "chunked", "deduplicated",
                   "embedded", "indexed"}

\* the state moves on, with a pending event for the transition
Advance(a, stage, fields) ==
    /\ run' = [run EXCEPT ![a] = [fields EXCEPT !.pc = stage]]
    /\ Emit(a, "pending", stage)

\* the document's chunks in the two stores
Snapshot(vectors, chunks, path) ==
    [vs |-> ChunksOfDoc(vectors, UploadDoc(path)),
     md |-> ChunksOfDoc(chunks, UploadDoc(path))]

\* failed, from any state: one error event naming the causing stage, and the
\* document's lock is released if the run holds it
Fail(a, stage, fields) ==
    /\ run' = [run EXCEPT ![a] =
                  [fields EXCEPT !.pc = "failed",
                                 !.after = Snapshot(vs, mdChunks, run[a].path)]]
    /\ Emit(a, "error", stage)
    /\ lock' = [p \in Paths |-> IF lock[p] = a THEN 0 ELSE lock[p]]

\* ingest(document_source, path, raw_bytes, language_hint) is called
Ingest(a) ==
    /\ calls = a - 1
    /\ calls' = a
    /\ \E path \in Paths, bytes \in Uploads :
          run' = [run EXCEPT ![a] =
                     [NoRun EXCEPT !.pc = "called", !.path = path, !.bytes = bytes,
                          !.concurrent = \E b \in Attempts :
                              run[b].path = path /\ (run[b].pc = "called" \/ Active(b))]]
    /\ UNCHANGED <<events, lock, registry, embedCalls, mdDocs, mdChunks, history>>
    /\ UNCHANGED storeVars
    /\ IngestFrame

\* received: oversized or empty input is a ValidationError, before any I/O;
\* otherwise the run enters the document's mutual-exclusion region
Receive(a) ==
    /\ run[a].pc = "called"
    /\ IF run[a].bytes = <<>> \/ Len(run[a].bytes) > MaxUploadSize
       THEN Fail(a, "received", run[a])
       ELSE /\ LockFree(run[a].path)
            /\ lock' = [lock EXCEPT ![run[a].path] = a]
            /\ Advance(a, "received",
                       [run[a] EXCEPT !.before = Snapshot(vs, mdChunks, run[a].path)])
    /\ UNCHANGED <<calls, registry, embedCalls, mdDocs, mdChunks, history>>
    /\ UNCHANGED storeVars
    /\ IngestFrame

\* normalized, or EncodingError from the Normalizer
NormalizeStep(a) ==
    /\ run[a].pc = "received"
    /\ IF Decodable(run[a].bytes)
       THEN /\ Advance(a, "normalized", [run[a] EXCEPT !.text = Normalize(run[a].bytes)])
            /\ UNCHANGED lock
       ELSE Fail(a, "normalized", run[a])
    /\ UNCHANGED <<calls, registry, embedCalls, mdDocs, mdChunks, history>>
    /\ UNCHANGED storeVars
    /\ IngestFrame

\* chunked
ChunkStep(a) ==
    /\ run[a].pc = "normalized"
    /\ Advance(a, "chunked",
               [run[a] EXCEPT !.drafts = Chunk(run[a].text, MaxChunkChars, OverlapChars)])
    /\ UNCHANGED <<calls, lock, registry, embedCalls, mdDocs, mdChunks, history>>
    /\ UNCHANGED storeVars
    /\ IngestFrame

\* deduplicated: is_duplicate(fingerprint) for each draft
DeduplicateStep(a) ==
    /\ run[a].pc = "chunked"
    /\ LET fingerprints ==
               {Fingerprint(run[a].drafts[i].text) : i \in 1..Len(run[a].drafts)}
       IN  Advance(a, "deduplicated",
                   [run[a] EXCEPT !.fresh = fingerprints \ registry])
    /\ UNCHANGED <<calls, lock, registry, embedCalls, mdDocs, mdChunks, history>>
    /\ UNCHANGED storeVars
    /\ IngestFrame

\* the bounded attempt count of the Embedding Client
EmbedAttempts == 2

\* the embedding calls counted per fingerprint
CountEmbedded(counts, fingerprints) ==
    [f \in DOMAIN counts \cup fingerprints |->
        (IF f \in DOMAIN counts THEN counts[f] ELSE 0)
            + (IF f \in fingerprints THEN 1 ELSE 0)]

\* the state after the batch, with the failure of the batch swallowed
EmbedOutcome_Swallowed(delivered) == "embedded"

\* the state after the batch: EmbeddingBackendError fails the document
EmbedOutcome(delivered) == IF delivered THEN "embedded" ELSE "failed"

\* embedded: the fresh fingerprints are embedded in one batch and registered;
\* a transient failure is retried up to the bounded attempt count, after which
\* the whole batch fails with EmbeddingBackendError and nothing is indexed
EmbedStep(a) ==
    /\ run[a].pc = "deduplicated"
    /\ \E delivered \in BOOLEAN :
          LET fields == [run[a] EXCEPT !.tries = @ + 1, !.embed_failed = ~delivered]
          IN  IF ~delivered /\ run[a].tries + 1 < EmbedAttempts
              THEN /\ run' = [run EXCEPT ![a].tries = @ + 1]
                   /\ UNCHANGED <<events, lock, registry, embedCalls>>
              ELSE IF EmbedOutcome(delivered) = "failed"
                   THEN /\ Fail(a, "embedded", fields)
                        /\ UNCHANGED <<registry, embedCalls>>
                   ELSE /\ Advance(a, "embedded", fields)
                        /\ registry' =
                               registry \cup (IF delivered THEN run[a].fresh ELSE {})
                        /\ embedCalls' =
                               CountEmbedded(embedCalls,
                                             IF delivered THEN run[a].fresh ELSE {})
                        /\ UNCHANGED lock
    /\ UNCHANGED <<calls, mdDocs, mdChunks, history>>
    /\ UNCHANGED storeVars
    /\ IngestFrame

\* the document's chunk set in a store with the old chunks kept
ReplaceChunks_KeepOld(store, docId, chunkIds) == store \cup chunkIds

\* the document's existing chunk set is deleted before the new set is written
ReplaceChunks(store, docId, chunkIds) ==
    (store \ ChunksOfDoc(store, docId)) \cup chunkIds

\* indexed: the document's batch replaces its chunks in the Vector Store; or
\* VectorStoreUnavailable, and the batch is not written at all
IndexStep(a) ==
    /\ run[a].pc = "embedded"
    /\ \/ /\ Advance(a, "indexed", run[a])
          /\ vs' = ReplaceChunks(vs, UploadDoc(run[a].path),
                                 ChunkIdsOf(UploadDoc(run[a].path), run[a].drafts))
          /\ UNCHANGED lock
       \/ /\ Fail(a, "indexed", run[a])
          /\ UNCHANGED vs
    /\ UNCHANGED <<calls, registry, embedCalls, mdDocs, mdChunks, history>>
    /\ IngestFrame

\* upsert_document(doc): one record per document id
UpsertDocument(docs, doc) == {d \in docs : d.id # doc.id} \cup {doc}

\* the chunk count ingest returns, counting only the chunks embedded afresh
ChunkCount_FreshOnly(drafts, fresh) == Cardinality(fresh)

\* the chunk count ingest returns
ChunkCount(drafts, fresh) == Len(drafts)

\* recorded: the Metadata Store takes the document record and the new chunk
\* records, the success event is appended and ingest returns
RecordStep(a) ==
    /\ run[a].pc = "indexed"
    /\ LET docId == UploadDoc(run[a].path)
           chunkIds == ChunkIdsOf(docId, run[a].drafts)
           chunks == ReplaceChunks(mdChunks, docId, chunkIds)
       IN  /\ mdChunks' = chunks
           /\ mdDocs' = UpsertDocument(mdDocs,
                           [id |-> docId, content_hash |-> ContentHash(run[a].text)])
           /\ run' = [run EXCEPT ![a] =
                         [run[a] EXCEPT !.pc = "recorded", !.document_id = docId,
                              !.chunk_count = ChunkCount(run[a].drafts, run[a].fresh),
                              !.stored = ChunksOfDoc(chunks, docId),
                              !.after = Snapshot(vs, chunks, run[a].path)]]
    /\ Emit(a, "success", "recorded")
    /\ lock' = [lock EXCEPT ![run[a].path] = 0]
    /\ history' = [history EXCEPT ![run[a].path] = Append(@, a)]
    /\ UNCHANGED <<calls, registry, embedCalls>>
    /\ UNCHANGED storeVars
    /\ IngestFrame

NextIngest ==
    \E a \in Attempts :
        \/ Ingest(a)
        \/ Receive(a)
        \/ NormalizeStep(a)
        \/ ChunkStep(a)
        \/ DeduplicateStep(a)
        \/ EmbedStep(a)
        \/ IndexStep(a)
        \/ RecordStep(a)

SpecIngest == InitIngest /\ [][NextIngest]_vars

----------------------------------------------------------------------------
(* Keyboard and focus: hooks/useKeyboardShortcuts.ts, SearchPage, ChatComposer *)

Pages == {"search", "chat", "studio"}

\* the composer is rendered once the agent is known to be enabled, and its
\* textarea is disabled while the mutation is loading
ComposerShown == agentEnabled = "true"

\* the elements of the page shown that can take focus
Focusable ==
    IF page = "search" THEN {"body", "search.question", "search.top_k", "search.source"}
    ELSE IF page = "chat"
         THEN {"body"}
              \cup (IF ComposerShown THEN {"chat.top_k"} ELSE {})
              \cup (IF ComposerShown /\ mutation # "loading"
                    THEN {"chat.question"} ELSE {})
         ELSE {"body", "studio.path"}

\* isInputFocused (lines 32-39): an input, a textarea or a contenteditable
isInputFocused(activeElement) ==
    activeElement \in {"search.question", "search.source", "chat.question", "studio.path"}

\* SearchPage is the only page that calls useKeyboardShortcuts (lines 49-54)
HookMounted == page = "search"

MetaOrCtrl == {"meta", "ctrl"}

\* the keydown events of the model: the characters "/" and "a" typed plainly,
\* and Enter with Cmd or Ctrl held
KeyEvents ==
    {[key |-> k, mod |-> "none"] : k \in {"/", "a"}}
    \cup {[key |-> "Enter", mod |-> m] : m \in MetaOrCtrl}

InitKeys ==
    /\ IdleKeys
    /\ IdleChat
    /\ IdleHealth
    /\ agentEndpoint \in ProbeOutcomes
    /\ navAgentEnabled = FALSE
    /\ navProbed = FALSE
    /\ IdleSearch
    /\ IdleStores
    /\ IdleText /\ IdleMessage /\ IdleIngest
    /\ IdleSync
    /\ IdleUpload

\* the user follows a link of the navigation or opens a route: the page left
\* is unmounted and its state is gone
Navigate ==
    /\ \E route \in Pages \ {page} : page' = route
    /\ focus' = "body"
    /\ sfQuestion' = <<>>
    /\ ccQuestion' = <<>>
    /\ searchState' = [query |-> NoQuery, hasSearched |-> FALSE]
    /\ agentEnabled' = "null"
    /\ messages' = <<>>
    /\ mutation' = "idle"
    /\ askRequest' = NoAsk
    /\ askResponse' = NoResponse
    /\ UNCHANGED <<kbEvent, kbTick, qCache, qPrev, qInflight, searches>>
    /\ KeyFrame

\* the user clicks or tabs to an element of the page
FocusElement ==
    /\ \E element \in Focusable \ {focus} : focus' = element
    /\ UNCHANGED <<page, sfQuestion, ccQuestion, kbEvent, kbTick>>
    /\ UNCHANGED <<searchVars, chatVars>>
    /\ KeyFrame

\* the field a character goes to by the default action of the keydown
TypedInto(field, name, event, prevented) ==
    IF ~prevented /\ event.mod = "none" /\ focus = name
    THEN Append(field, event.key) ELSE field

\* a keydown: the textarea's onKeyDown of the composer (lines 489-494 of
\* ChatComposer), then handleKeyDown of the hook when it is mounted (lines
\* 13-25), then the default action unless it was prevented
KeyDown ==
    \E event \in KeyEvents :
        LET submitKey == event.mod \in MetaOrCtrl /\ event.key = "Enter"
            composerSubmit == page = "chat" /\ focus = "chat.question" /\ submitKey
            \* onSearch is handleFocusSearch (part_006 45-47): the input takes the focus
            \* first; handleFocusSearch and focusSearchInput (SearchForm.tsx 70-73) then
            \* call each other until the call stack overflows, which changes no state
            hookSearch == HookMounted /\ event.key = "/" /\ ~isInputFocused(focus)
            hookSubmit == HookMounted /\ submitKey
            prevented == composerSubmit \/ hookSearch \/ hookSubmit
            sends == composerSubmit /\ ccQuestion # <<>>
        IN  /\ Len(TypedInto(sfQuestion, "search.question", event, prevented)) <= MaxTyped
            /\ Len(TypedInto(ccQuestion, "chat.question", event, prevented)) <= MaxTyped
            /\ sends => Len(messages) + 2 <= MaxMessages
            /\ kbEvent' = [key |-> event.key, mod |-> event.mod, prevented |-> prevented]
            /\ kbTick' = 1 - kbTick
            /\ sfQuestion' = TypedInto(sfQuestion, "search.question", event, prevented)
            /\ IF sends
               THEN /\ \E top_k \in TopKChoices : handleSendMessage(ccQuestion, top_k)
                    /\ ccQuestion' = <<>>
                    /\ focus' = "body"
               ELSE /\ UNCHANGED chatVars
                    /\ ccQuestion' = TypedInto(ccQuestion, "chat.question", event, prevented)
                    /\ focus' = IF hookSearch THEN "search.question" ELSE focus
            /\ UNCHANGED page
            /\ UNCHANGED searchVars
            /\ KeyFrame

\* the effect of Layout (lines 117-120): its own probe of /agent/ask settles
LayoutCheckAgentAvailability ==
    /\ ~navProbed
    /\ navProbed' = TRUE
    /\ navAgentEnabled' = checkAgentAvailability(agentEndpoint)
    /\ UNCHANGED agentEndpoint
    /\ LayoutFrame

\* the chat page's own steps, while it is the page shown
ChatPageStep ==
    /\ page = "chat"
    /\ \/ CheckAgentAvailability
       \/ AskHandled
       \/ MutationSucceeds
       \/ MutationFails

NextKeys ==
    \/ LayoutCheckAgentAvailability
    \/ Navigate
    \/ FocusElement
    \/ KeyDown
    \/ ChatPageStep

SpecKeys == InitKeys /\ [][NextKeys]_vars

----------------------------------------------------------------------------
(* components/features/studio/HealthTab.tsx *)

\* the status field of the bodies GET /health answers with: the two of the
\* HealthResponse type, and the one the runbook documents
HealthStatuses == {"healthy", "unhealthy", "ok"}

\* line 27
isHealthy(data) == data.defined /\ data.status = "healthy"

\* useQuery's isLoading: no data yet and no error
HealthIsLoading == hStatus = "loading"

\* lines 50-112: the status card
HealthCard ==
    IF hError THEN "Connection Failed"
    ELSE IF HealthIsLoading THEN "Checking Status..."
         ELSE IF isHealthy(hData) THEN "Backend is Healthy"
              ELSE "Backend is Unhealthy"

\* line 107: the badge
HealthBadge == IF hData.defined /\ hData.status # "" THEN hData.status ELSE "Unknown"

InitHealth ==
    /\ hStatus = "loading"
    /\ hData = NoHealthData
    /\ hError = FALSE
    /\ hFetching = TRUE
    /\ hChecks = 1
    /\ IdleText /\ IdleMessage /\ IdleSearch /\ IdleChat /\ IdleLayout /\ IdleKeys
    /\ IdleIngest /\ IdleStores
    /\ IdleSync
    /\ IdleUpload

\* GET /health answers 200 with a body; the timestamp may be missing, as in
\* the runbook's body
HealthSucceeds ==
    /\ hFetching
    /\ \E status \in HealthStatuses, stamped \in BOOLEAN :
          hData' = [defined |-> TRUE, status |-> status,
                    timestamp |-> IF stamped THEN hChecks ELSE 0]
    /\ hStatus' = "success"
    /\ hError' = FALSE
    /\ hFetching' = FALSE
    /\ UNCHANGED hChecks
    /\ HealthFrame

\* GET /health fails (after useQuery's retry): the data of an earlier success stays
HealthFails ==
    /\ hFetching
    /\ hStatus' = "error"
    /\ hError' = TRUE
    /\ hFetching' = FALSE
    /\ UNCHANGED <<hData, hChecks>>
    /\ HealthFrame

\* the refetch of the 30 s interval, or of the Refresh button (enabled unless
\* isLoading); a query without data goes back to loading and drops its error
HealthRefetch ==
    /\ ~hFetching
    /\ hChecks < MaxHealthChecks
    /\ hFetching' = TRUE
    /\ hChecks' = hChecks + 1
    /\ IF hData.defined
       THEN UNCHANGED <<hStatus, hError>>
       ELSE hStatus' = "loading" /\ hError' = FALSE
    /\ UNCHANGED hData
    /\ HealthFrame

NextHealth ==
    \/ HealthSucceeds
    \/ HealthFails
    \/ HealthRefetch

SpecHealth == InitHealth /\ [][NextHealth]_vars

----------------------------------------------------------------------------
(* Inputs of the text utilities *)

Filler(n) == [i \in 1..n |-> "x"]

KeyChars == {"a", "A", " "}

\* texts of up to MaxTextLen characters: filler with at most two other characters
Texts ==
    {Filler(n) : n \in 0..MaxTextLen}
    \cup UNION {{[Filler(n) EXCEPT ![p] = c] : p \in 1..n, c \in KeyChars} :
                    n \in 1..MaxTextLen}
    \cup UNION {{[Filler(n) EXCEPT ![p] = c, ![q] = d] :
                        p \in 1..n, q \in 1..n, c \in KeyChars, d \in KeyChars} :
                    n \in 1..MaxTextLen}

QueryChars == {"a", "A", "x", " "}

Queries == UNION {[1..n -> QueryChars] : n \in 0..MaxQueryLen}

StoredSnippets == {<<>>, <<"s">>, <<" ">>}

FullTexts == {Undefined, <<>>, <<"a">>, <<" ", "x", "a", " ">>, <<"x", " ", "A">>}

DisplayChunks == [snippet : StoredSnippets, full_text : FullTexts]

\* the arguments of one call: of generateSnippet, or of getChunkDisplayText
InitText ==
    /\ snPc = "input"
    /\ snQuery \in Queries
    /\ snResult = <<>>
    /\ \/ /\ snText \in Texts
          /\ snMaxLength \in 1..MaxWindow
          /\ snChunk = NoChunk
       \/ /\ snText = <<>>
          /\ snMaxLength = DefaultMaxLength
          /\ snChunk \in DisplayChunks
    /\ IdleMessage /\ IdleSearch /\ IdleChat /\ IdleHealth /\ IdleLayout /\ IdleKeys /\ IdleIngest /\ IdleStores
    /\ IdleSync
    /\ IdleUpload

\* a call of generateSnippet(text, query, maxLength)
CallGenerateSnippet ==
    /\ snPc = "input"
    /\ snMaxLength # DefaultMaxLength
    /\ snPc' = "generated"
    /\ snResult' = generateSnippet(snText, snQuery, snMaxLength)
    /\ UNCHANGED <<snText, snQuery, snMaxLength, snChunk>>
    /\ TextFrame

\* a call of getChunkDisplayText(chunk, query)
CallGetChunkDisplayText ==
    /\ snPc = "input"
    /\ snMaxLength = DefaultMaxLength
    /\ snPc' = "displayed"
    /\ snResult' = getChunkDisplayText(snChunk, snQuery)
    /\ UNCHANGED <<snText, snQuery, snMaxLength, snChunk>>
    /\ TextFrame

NextText ==
    \/ CallGenerateSnippet
    \/ CallGetChunkDisplayText

SpecText == InitText /\ [][NextText]_vars

----------------------------------------------------------------------------
(* Claims about the text utilities *)

HasText(t) == t # Undefined /\ t # <<>>

\* C2: getChunkDisplayText returns the stored snippet whenever it is non-empty;
\* otherwise the snippet generated from a non-empty full_text for the query;
\* otherwise the placeholder 'No content available'.
C2_DisplayTextPrefersStored ==
    snPc = "displayed" =>
        /\ snChunk.snippet # <<>> => snResult = snChunk.snippet
        /\ (snChunk.snippet = <<>> /\ HasText(snChunk.full_text)) =>
               snResult = generateSnippet(snChunk.full_text, snQuery, DefaultMaxLength)
        /\ (snChunk.snippet = <<>> /\ ~HasText(snChunk.full_text)) =>
               snResult = NoContentAvailable

\* a chunk that has both a stored snippet and a full text was displayed
C2_Witness ==
    /\ snPc = "displayed"
    /\ snChunk.snippet = <<"s">>
    /\ snChunk.full_text = <<" ", "x", "a", " ">>
    /\ snQuery = <<"a">>
    /\ snResult = <<"s">>

\* the highest keyword score of any window of maxLength characters of the text
MaxWindowScore(text, query, maxLength) ==
    LET scores == {WindowScore(text, query, i, maxLength) :
                       i \in 0..(Len(text) - maxLength)}
    IN  CHOOSE m \in scores : \A n \in scores : n <= m

\* C3: for a text longer than maxLength, the window generateSnippet takes its
\* snippet from has the highest keyword score of all windows of that length.
C3_BestWindowOfAllWindows ==
    (snPc = "generated" /\ Len(snText) > snMaxLength) =>
        WindowScore(snText, snQuery, BestIndex(snText, snQuery, snMaxLength),
                    snMaxLength)
            = MaxWindowScore(snText, snQuery, snMaxLength)

\* the query's words that occur in the text, case-insensitively
WordsInText(text, query) ==
    {k \in 1..Len(QueryWords(query)) : Includes(toLowerCase(text), QueryWords(query)[k])}

Generated == snPc = "generated"

\* the allowance for the ellipses
EllipsisAllowance == 10

\* C13: generateSnippet returns at most maxLength + 10 characters, the
\* ellipses included.
C13_SnippetLengthBounded ==
    Generated => Len(snResult) <= snMaxLength + EllipsisAllowance

\* C14: whenever a word of the query occurs in the text, the snippet contains
\* a word of the query.
C14_SnippetContainsQueryWord ==
    (Generated /\ WordsInText(snText, snQuery) # {}) =>
        WordsInText(snResult, snQuery) # {}

\* no word of the query occurs in a text longer than maxLength
NoMatchLongText ==
    /\ Generated
    /\ WordsInText(snText, snQuery) = {}
    /\ Len(snText) > snMaxLength

\* C15 as claimed: with no word of the query in a text longer than maxLength,
\* the snippet is a prefix of the text followed by "...".
C15_PrefixThenEllipsis ==
    NoMatchLongText =>
        \E end \in 0..Len(snText) : snResult = Slice(snText, 0, end) \o Ellipsis

\* C15 as amended: with a non-empty query none of whose words occurs in a
\* text longer than maxLength, the snippet is a proper prefix of the text with
\* the whitespace around it trimmed, followed by "...", with no leading "...".
C15_TrimmedPrefixThenEllipsis ==
    (NoMatchLongText /\ snQuery # <<>>) =>
        \E end \in 0..(Len(snText) - 1) :
            snResult = Trim(Slice(snText, 0, end)) \o Ellipsis

C15_Witness ==
    /\ NoMatchLongText
    /\ QueryWords(snQuery) # <<>>
    /\ snText[1] = " "
    /\ Len(snResult) > Len(Ellipsis)
    /\ \A end \in 0..Len(snText) : snResult # Slice(snText, 0, end) \o Ellipsis

----------------------------------------------------------------------------
(* Claims about the citation markers of a chat message *)

\* the characters at 0-based indices p .. p + d + 1 of content are "[", d digits, "]"
IsMarker(content, p, d) ==
    /\ d >= 1
    /\ p + d + 2 <= Len(content)
    /\ content[p + 1] = "["
    /\ \A j \in 1..d : content[p + 1 + j] \in Digits
    /\ content[p + d + 2] = "]"

MarkerNumber(content, p, d) == ParseInt(SubSeq(content, p + 2, p + 1 + d))

CitationCount(sources) == IF sources.present THEN Len(sources.items) ELSE 0

RECURSIVE FlattenText(_)
FlattenText(items) ==
    IF items = <<>> THEN <<>> ELSE Head(items).text \o FlattenText(Tail(items))

\* C4: a marker [n] of the answer is linked to citation n exactly when
\* 1 <= n <= k (k citations); any other marker stays plain text, no marker is
\* linked to another source, and rendering loses nothing of the message.
C4_MarkersLinkedInRange ==
    cmPc \in {"rendered", "clicked"} =>
        LET k == CitationCount(cmSources)
        IN  /\ \A p \in 0..Len(cmContent), d \in 1..Len(cmContent) :
                  IsMarker(cmContent, p, d) =>
                      LET n == MarkerNumber(cmContent, p, d)
                          spans == {i \in 1..Len(cmParsed) :
                                        /\ cmParsed[i].kind = "span"
                                        /\ cmParsed[i].at = p}
                      IN  IF 1 <= n /\ n <= k
                          THEN \E i \in spans :
                                   /\ cmParsed[i].index = n - 1
                                   /\ cmParsed[i].text = Slice(cmContent, p, p + d + 2)
                                   /\ handleCitationClick(cmParsed[i].index, cmSources)
                                          = cmSources.items[n]
                          ELSE spans = {}
            /\ \A i \in 1..Len(cmParsed) :
                  cmParsed[i].kind = "span" =>
                      /\ cmParsed[i].index \in 0..(k - 1)
                      /\ \E d \in 1..Len(cmContent) :
                            /\ IsMarker(cmContent, cmParsed[i].at, d)
                            /\ MarkerNumber(cmContent, cmParsed[i].at, d)
                                   = cmParsed[i].index + 1
            /\ FlattenText(cmParsed) = cmContent
            /\ cmPc = "clicked" => cmClicked \in {cmSources.items[n] : n \in 1..k}

\* an answer with a marker in range and one out of range was rendered with one
\* citation, and the linked marker was clicked
C4_Witness ==
    /\ cmPc = "clicked"
    /\ cmContent = <<"[", "1", "]", "[", "2", "]">>
    /\ CitationCount(cmSources) = 1
    /\ cmClicked = Citation(1)
    /\ Len(cmParsed) = 2
    /\ cmParsed[2].kind = "plain"

----------------------------------------------------------------------------
(* Claims about the search page *)

ShownResults == SearchPageView(searchState, qCache, qPrev).results

\* the response to the current query has arrived
ResponseArrived ==
    /\ searchState.hasSearched
    /\ qCache[searchState.query].status = "success"

\* C1: every chunk of the query response is shown, whatever its score: flagged
\* as low-confidence when its score is below the threshold, unflagged otherwise.
C1_EveryChunkShownAndFlagged ==
    ResponseArrived =>
        LET chunks == qCache[searchState.query].chunks
            items == ShownResults.items
        IN  /\ Len(items) = Len(chunks)
            /\ Len(chunks) > 0 => ShownResults.view = "results"
            /\ \A i \in 1..Len(chunks) :
                  /\ items[i].chunk_id = chunks[i].chunk_id
                  /\ items[i].score = chunks[i].score
                  /\ items[i].isLowConfidence <=> chunks[i].score < ConfidenceThreshold

\* a response with a chunk below the threshold and a chunk at the threshold is shown
C1_Witness ==
    /\ ResponseArrived
    /\ ShownResults.view = "results"
    /\ \E i, j \in 1..Len(ShownResults.items) :
          /\ ShownResults.items[i].score = ConfidenceThreshold
          /\ ~ShownResults.items[i].isLowConfidence
          /\ ShownResults.items[j].score < ConfidenceThreshold
          /\ ShownResults.items[j].isLowConfidence

\* C6: the chunks shown are in non-increasing order of score, equal scores in
\* ascending order of chunk id, and the list keeps the order of the response.
C6_ShownInRankOrder ==
    /\ ShownResults.view = "results" =>
          \A i, j \in 1..Len(ShownResults.items) :
              i < j =>
                  \/ ShownResults.items[i].score > ShownResults.items[j].score
                  \/ /\ ShownResults.items[i].score = ShownResults.items[j].score
                     /\ ChunkIdLess(ShownResults.items[i].chunk_id,
                                    ShownResults.items[j].chunk_id)
    /\ ResponseArrived =>
          [i \in 1..Len(ShownResults.items) |-> ShownResults.items[i].chunk_id]
              = [i \in 1..Len(qCache[searchState.query].chunks) |->
                    qCache[searchState.query].chunks[i].chunk_id]

\* two chunks of equal score are shown, and two chunks of different scores
C6_Witness ==
    /\ ResponseArrived
    /\ Len(ShownResults.items) = 2
    /\ ShownResults.items[1].score = ShownResults.items[2].score
    /\ \E k \in SearchKeys :
          /\ qCache[k].status = "success"
          /\ Len(qCache[k].chunks) = 2
          /\ qCache[k].chunks[1].score > qCache[k].chunks[2].score

----------------------------------------------------------------------------
(* Chat page claims *)

LastMessage == messages[Len(messages)]

\* the latest ask reached the LLM backend and found it unreachable
LlmWasUnreachable == askResponse.llm = "unreachable"

\* the request has settled on the page
AskSettled == askRequest = NoAsk /\ mutation \in {"success", "error"}

\* C5: when the LLM backend is unreachable, ask still completes as a normal
\* response with the ranked raw chunks and an answer that is empty or the
\* degradation marker, and the chat page appends it through onSuccess: the
\* last message carries those chunks and is not the error message.
C5_DegradedAskTakesSuccessPath ==
    LlmWasUnreachable =>
        /\ askResponse.state = "ok"
        /\ askResponse.answer \in DegradedAnswers
        /\ \E sim \in [SearchCorpus -> Scores], top_k \in TopKChoices :
              askResponse.raw_chunks = RagQuery(vs, sim, top_k, NoFilters)
        /\ AskSettled =>
              /\ mutation = "success"
              /\ LastMessage.type = "assistant"
              /\ LastMessage.content = askResponse.answer
              /\ LastMessage.rawChunks = SomeList(askResponse.raw_chunks)
              /\ RawChunksShown(LastMessage) = askResponse.raw_chunks

C5_Witness ==
    /\ LlmWasUnreachable
    /\ AskSettled
    /\ Len(askResponse.raw_chunks) = 2
    /\ LastMessage.content = DegradationMarker

----------------------------------------------------------------------------
(* Ingestion claims *)

Ended(a) == run[a].pc \in {"recorded", "failed"}

TerminalEvents(a) ==
    {i \in 1..Len(events[a]) : events[a][i].status \in {"success", "error"}}

ChunkIdsOfUpload(path, bytes) ==
    ChunkIdsOf(UploadDoc(path), Chunk(Normalize(bytes), MaxChunkChars, OverlapChars))

RecordedOn(path) == {a \in Attempts : run[a].pc = "recorded" /\ run[a].path = path}

\* every call for the document has finished
Quiet(path) ==
    \A a \in Attempts : run[a].path = path => Ended(a)

\* C8: ingest calls for the same (source, path) are serialized: two runs of
\* the same document id are never active together, and when all of them have
\* finished the Metadata Store holds exactly one document record for it and
\* the stores hold the chunk set of exactly one of the inputs, never a mix.
C8_SameDocumentSerialized ==
    /\ \A a, b \in Attempts :
          (a # b /\ Active(a) /\ Active(b)) => run[a].path # run[b].path
    /\ \A p \in Paths :
          (Quiet(p) /\ RecordedOn(p) # {}) =>
              /\ Cardinality({d \in mdDocs : d.id = UploadDoc(p)}) = 1
              /\ \E a \in RecordedOn(p) :
                    /\ ChunksOfDoc(mdChunks, UploadDoc(p)) = ChunkIdsOfUpload(p, run[a].bytes)
                    /\ ChunksOfDoc(vs, UploadDoc(p)) = ChunkIdsOfUpload(p, run[a].bytes)
                    /\ \A d \in mdDocs :
                          d.id = UploadDoc(p) =>
                              d.content_hash = ContentHash(Normalize(run[a].bytes))

C8_Witness ==
    /\ run[1].pc = "recorded" /\ run[2].pc = "recorded"
    /\ run[1].path = run[2].path
    /\ run[2].concurrent
    /\ ChunkIdsOfUpload(1, run[1].bytes) \cap ChunkIdsOfUpload(1, run[2].bytes) = {}

Latest(path) == history[path][Len(history[path])]

\* the chunks of the document's earlier versions that its latest version lacks
StaleChunks(path) ==
    UNION {run[history[path][i]].stored : i \in 1..(Len(history[path]) - 1)}
        \ run[Latest(path)].stored

QueryScores == {20, 30}

\* C9: once a re-ingest of a document has completed and no further run of the
\* document is under way, the stores hold exactly the chunk set of the latest
\* version and no query returns a chunk that only an earlier version had.
C9_ReingestFullyReplaces ==
    \A p \in Paths :
        (Len(history[p]) >= 2 /\ LockFree(p)) =>
            /\ ChunksOfDoc(vs, UploadDoc(p)) = ChunkIdsOfUpload(p, run[Latest(p)].bytes)
            /\ ChunksOfDoc(mdChunks, UploadDoc(p)) = ChunkIdsOfUpload(p, run[Latest(p)].bytes)
            /\ StaleChunks(p) \cap (vs \cup mdChunks) = {}
            /\ \A sim \in [vs -> QueryScores], top_k \in TopKChoices :
                  LET chunks == RagQuery(vs, sim, top_k, NoFilters)
                  IN  \A i \in 1..Len(chunks) : chunks[i].chunk_id \notin StaleChunks(p)

C9_Witness ==
    /\ Len(history[1]) = 2
    /\ LockFree(1)
    /\ StaleChunks(1) # {}
    /\ run[Latest(1)].stored \ run[history[1][1]].stored # {}

\* C10: ingesting a document again with identical content is idempotent: both
\* ingests return the same document id and the same chunk count, and the
\* chunk identifiers stored after the second are those stored after the first.
C10_IdenticalReingestIdempotent ==
    \A a, b \in Attempts :
        (/\ a # b
         /\ run[a].pc = "recorded" /\ run[b].pc = "recorded"
         /\ run[a].path = run[b].path
         /\ run[a].bytes = run[b].bytes) =>
            /\ run[a].document_id = run[b].document_id
            /\ run[a].chunk_count = run[b].chunk_count
            /\ run[a].stored = run[b].stored
            /\ run[a].stored = ChunkIdsOfUpload(run[a].path, run[a].bytes)

C10_Witness ==
    /\ run[1].pc = "recorded" /\ run[2].pc = "recorded"
    /\ run[1].path = run[2].path
    /\ run[1].bytes = run[2].bytes
    /\ run[2].chunk_count = 2
    /\ run[2].fresh = {}

LastEvent(a) == events[a][Len(events[a])]

\* C11: when embedding a document's chunks still fails after the bounded
\* retries, the ingest ends failed with an error event naming the embedding
\* stage, and the document's chunks in the Vector Store and the Metadata Store
\* are what they were when the run began: none of the new chunks is written.
C11_EmbedFailureIndexesNothing ==
    \A a \in Attempts :
        run[a].embed_failed =>
            /\ run[a].tries = EmbedAttempts
            /\ run[a].pc = "failed"
            /\ LastEvent(a) = [status |-> "error", stage |-> "embedded"]
            /\ run[a].after = run[a].before
            /\ LET new == ChunkIdsOf(UploadDoc(run[a].path), run[a].drafts)
                         \ (run[a].before.vs \cup run[a].before.md)
               IN  new \cap (run[a].after.vs \cup run[a].after.md) = {}

C11_Witness ==
    /\ run[2].embed_failed
    /\ run[2].pc = "failed"
    /\ run[2].before.vs # {}
    /\ ChunkIdsOf(UploadDoc(run[2].path), run[2].drafts) \cap run[2].before.vs = {}
    /\ run[2].fresh # {}

\* C12: over any ingests, each distinct fingerprint is embedded at most once.
C12_EachFingerprintEmbeddedOnce ==
    \A f \in DOMAIN embedCalls : embedCalls[f] <= 1

----------------------------------------------------------------------------
(* Keyboard shortcut claims *)

\* this step is a keydown of Cmd+Enter or Ctrl+Enter
SubmitKeyPressed == kbTick' # kbTick /\ kbEvent'.key = "Enter"

\* this step is a keydown of "/"
SlashPressed == kbTick' # kbTick /\ kbEvent'.key = "/"

\* C16: pressing Cmd+Enter or Ctrl+Enter submits the form of the current
\* page: on the Search page the search with the question typed, on the Chat
\* page the question typed in the composer.
C16_SubmitKeySubmitsForm ==
    [][SubmitKeyPressed =>
          /\ (page = "search" /\ sfQuestion # <<>>) =>
                /\ searchState'.hasSearched
                /\ searchState'.query # NoQuery
                /\ searchState'.query.question = sfQuestion
          /\ (page = "chat" /\ focus = "chat.question" /\ ccQuestion # <<>>) =>
                /\ messages' = Append(messages, UserMessage(ccQuestion))
                /\ mutation' = "loading"]_vars

\* C17: pressing "/" on any page while no input, textarea or contenteditable
\* has focus moves focus to the search input; pressing it while such an
\* element has focus triggers nothing and the character is typed.
C17_SlashFocusesSearch ==
    [][SlashPressed =>
          IF isInputFocused(focus)
          THEN /\ focus' = focus
               /\ ~kbEvent'.prevented
               /\ focus = "search.question" => sfQuestion' = Append(sfQuestion, "/")
               /\ focus = "chat.question" => ccQuestion' = Append(ccQuestion, "/")
          ELSE /\ focus' = "search.question"
               /\ kbEvent'.prevented]_vars

----------------------------------------------------------------------------
(* Agent availability claims *)

\* the probe is answered with 404, or gets no response at all
AgentNotThere == agentEndpoint \in {404, 0}

\* the Chat page shows the 'Agent Not Available' banner (lines 93-113)
BannerShown == page = "chat" /\ agentEnabled = "false"

\* C18: whenever the probe of /agent/ask is answered with 404 or gets no
\* response, the agent is treated as unavailable: once its probe has settled
\* the Chat page shows the banner, and the navigation shows no Chat entry.
C18_NoAgentMeansUnavailable ==
    AgentNotThere =>
        /\ (page = "chat" /\ agentEnabled # "null") => BannerShown
        /\ ~navAgentEnabled

----------------------------------------------------------------------------
(* Health tab claims *)

\* the last GET /health succeeded with the given status in its body
HealthAnswered(status) ==
    hStatus = "success" /\ ~hFetching /\ hData.status = status

\* C19: when GET /health succeeds with the runbook's body {"status": "ok"} the
\* Health tab reports the backend as Healthy; it reports Unhealthy only for a
\* response that says so, and 'Connection Failed' only when the request fails.
C19_RunbookBodyIsHealthy ==
    /\ HealthAnswered("ok") => HealthCard = "Backend is Healthy"
    /\ HealthCard = "Backend is Unhealthy" => hData.status = "unhealthy"
    /\ HealthCard = "Connection Failed" => hStatus = "error"

----------------------------------------------------------------------------
(* Low-confidence banner *)

\* the scores of the result cards shown
ShownScores == {ShownResults.items[i].score : i \in 1..Len(ShownResults.items)}

\* C20: the low-confidence banner is shown exactly when the list of results
\* shown is non-empty and every result's score is strictly below the
\* confidence threshold; not for an empty list, nor when one result reaches
\* the threshold.
C20_BannerIffAllLow ==
    ShownResults.warning <=>
        /\ ShownResults.view = "results"
        /\ Len(ShownResults.items) > 0
        /\ \A score \in ShownScores : score < ConfidenceThreshold

C20_Witness ==
    /\ ShownResults.warning
    /\ Len(ShownResults.items) = 2
    /\ \E query \in SearchKeys :
          /\ qCache[query].status = "success"
          /\ Len(qCache[query].chunks) = 2
          /\ qCache[query].chunks[1].score = ConfidenceThreshold
          /\ SearchResults(qCache[query].chunks, query.question, FALSE).view = "results"
          /\ ~SearchResults(qCache[query].chunks, query.question, FALSE).warning

----------------------------------------------------------------------------
(* Confluence sync (components/features/ConfluenceSync.tsx)                *)

SpaceKeys == {"", "ENG"}

RootPageIds == {"", "123456"}

\* a toast: its level and who raised it
Toast(level, by) == [level |-> level, by |-> by]

\* the response interceptor of the axios instance (lines 29-46 of
\* services/api.ts): every rejected request raises toast.error
InterceptorToast == Toast("error", "interceptor")

\* the check of line 97 left out
FormValid_Unchecked(form) == TRUE

\* the validation of handleStart (line 97)
FormValid(form) == ~(form.space_key = "" /\ form.root_page_id = "")

\* a terminal status with "cancelled" forgotten
IsTerminal_NoCancelled(status) == status \in {"completed", "failed"}

\* line 55: the statuses that end the polling
IsTerminal(status) == status \in {"completed", "failed", "cancelled"}

\* the toast of lines 57-65
StatusToast(status) ==
    IF status = "completed" THEN {Toast("success", "component")}
    ELSE IF status \in {"failed", "cancelled"} THEN {Toast("error", "component")}
    ELSE {}

\* a handler has run
SyncEvent(op, toasts) == csLast' = [op |-> op, toasts |-> toasts]

InitSync ==
    /\ IdleSync
    /\ IdleUpload
    /\ IdleText /\ IdleMessage /\ IdleSearch /\ IdleChat /\ IdleHealth /\ IdleLayout
    /\ IdleKeys /\ IdleIngest /\ IdleStores

\* handleInputChange (lines 135-137) on one of the two text fields; the
\* form is rendered while the job is not running (line 185)
HandleInputChange ==
    /\ ~isRunning
    /\ \/ \E value \in SpaceKeys \ {formData.space_key} :
             formData' = [formData EXCEPT !.space_key = value]
       \/ \E value \in RootPageIds \ {formData.root_page_id} :
             formData' = [formData EXCEPT !.root_page_id = value]
    /\ UNCHANGED <<currentJobId, jobStatus, isRunning, reports, csStarts, csPolls,
                   csCancels, csFetches, csJobs, csTerminal, csLast, csIssued>>
    /\ SyncFrame

\* handleStart up to its await (lines 94-109): the Start button is clicked
HandleStart ==
    /\ ~isRunning
    /\ IF ~FormValid(formData)
       THEN /\ SyncEvent("start_invalid", {Toast("error", "component")})
            /\ UNCHANGED <<csStarts, csIssued>>
       ELSE /\ csIssued.starts < MaxStarts
            /\ csStarts' = csStarts + 1
            /\ csIssued' = [csIssued EXCEPT !.starts = @ + 1]
            /\ SyncEvent("start_sent", {})
    /\ UNCHANGED <<formData, currentJobId, jobStatus, isRunning, reports, csPolls,
                   csCancels, csFetches, csJobs, csTerminal>>
    /\ SyncFrame

\* the server creates the job and handleStart resumes (lines 109-115)
StartSucceeds ==
    /\ csStarts > 0
    /\ Len(csJobs) < MaxJobs
    /\ LET job_id == Len(csJobs) + 1
       IN  /\ csJobs' = Append(csJobs, "running")
           /\ currentJobId' = job_id
           /\ isRunning' = TRUE
           /\ jobStatus' = NoStatus
           /\ reports' = NoReports
           /\ SyncEvent("start_ok", {Toast("success", "component")})
    /\ csStarts' = csStarts - 1
    /\ UNCHANGED <<formData, csPolls, csCancels, csFetches, csTerminal, csIssued>>
    /\ SyncFrame

\* the start request is rejected: the catch of handleStart (lines 116-119)
StartFails ==
    /\ csStarts > 0
    /\ csStarts' = csStarts - 1
    /\ SyncEvent("start_failed", {InterceptorToast, Toast("error", "component")})
    /\ UNCHANGED <<formData, currentJobId, jobStatus, isRunning, reports, csPolls,
                   csCancels, csFetches, csJobs, csTerminal, csIssued>>
    /\ SyncFrame

\* the effect of lines 46-74 installs the interval while a job is set and
\* running, and clears it when either changes
PollIntervalSet == currentJobId # 0 /\ isRunning

\* the interval callback starts (lines 49-51): a status request for the job
\* of the effect's closure is issued, whether or not earlier ones have returned
PollTick ==
    /\ PollIntervalSet
    /\ csIssued.polls < MaxPolls
    /\ csIssued' = [csIssued EXCEPT !.polls = @ + 1]
    /\ csPolls' = csPolls (+) SetToBag({[job |-> currentJobId, reply |-> "pending"]})
    /\ SyncEvent("tick", {})
    /\ UNCHANGED <<formData, currentJobId, jobStatus, isRunning, reports, csStarts,
                   csCancels, csFetches, csJobs, csTerminal>>
    /\ SyncFrame

\* the server answers a status request with the job's status, or the request fails
StatusAnswered ==
    /\ \E poll \in BagToSet(csPolls) :
          /\ poll.reply = "pending"
          /\ \E reply \in {csJobs[poll.job], "error"} :
                csPolls' = (csPolls (-) SetToBag({poll}))
                               (+) SetToBag({[poll EXCEPT !.reply = reply]})
    /\ UNCHANGED <<formData, currentJobId, jobStatus, isRunning, reports, csStarts,
                   csCancels, csFetches, csJobs, csTerminal, csLast, csIssued>>
    /\ SyncFrame

\* the job ends on the server
JobEnds ==
    /\ \E job_id \in 1..Len(csJobs), status \in {"completed", "failed"} :
          /\ csJobs[job_id] = "running"
          /\ csJobs' = [csJobs EXCEPT ![job_id] = status]
    /\ UNCHANGED <<formData, currentJobId, jobStatus, isRunning, reports, csStarts,
                   csPolls, csCancels, csFetches, csTerminal, csLast, csIssued>>
    /\ SyncFrame

\* the interval callback resumes with the status (lines 51-66)
PollResponse ==
    /\ \E poll \in BagToSet(csPolls) :
          /\ poll.reply \notin {"pending", "error"}
          /\ csPolls' = csPolls (-) SetToBag({poll})
          /\ jobStatus' = [job_id |-> poll.job, status |-> poll.reply]
          /\ IF IsTerminal(poll.reply)
             THEN /\ isRunning' = FALSE
                  /\ csTerminal' = csTerminal \cup {poll.job}
             ELSE UNCHANGED <<isRunning, csTerminal>>
          /\ csFetches' = IF IsTerminal(poll.reply) /\ poll.reply = "completed"
                          THEN csFetches \cup {poll.job} ELSE csFetches
          /\ SyncEvent("poll",
                       IF IsTerminal(poll.reply) THEN StatusToast(poll.reply) ELSE {})
    /\ UNCHANGED <<formData, currentJobId, reports, csStarts, csCancels, csJobs, csIssued>>
    /\ SyncFrame

\* the status request is rejected: the interceptor, then the catch of lines 67-70
PollFails ==
    /\ \E poll \in BagToSet(csPolls) :
          /\ poll.reply = "error"
          /\ csPolls' = csPolls (-) SetToBag({poll})
          /\ SyncEvent("poll_failed", {InterceptorToast})
    /\ UNCHANGED <<formData, currentJobId, jobStatus, isRunning, reports, csStarts,
                   csCancels, csFetches, csJobs, csTerminal, csIssued>>
    /\ SyncFrame

ReportTypes == {"failed", "indexed", "skipped"}

\* the report requests that fail: none, one of them, all of them
ReportFailures == {{}, {"failed"}, ReportTypes}

\* fetchReports settles (lines 76-92): each report that could not be fetched
\* is left undefined
FetchReports ==
    /\ \E job_id \in csFetches :
          /\ csFetches' = csFetches \ {job_id}
          /\ \E absent \in ReportFailures :
                /\ reports' = [type \in ReportTypes |->
                                   IF type \in absent THEN 0 ELSE job_id]
                /\ SyncEvent("reports", IF absent = {} THEN {} ELSE {InterceptorToast})
    /\ UNCHANGED <<formData, currentJobId, jobStatus, isRunning, csStarts, csPolls,
                   csCancels, csJobs, csTerminal, csIssued>>
    /\ SyncFrame

\* handleCancel up to its await (lines 122-126); the Cancel button is rendered
\* in the status card while the job runs (lines 296, 375-383)
HandleCancel ==
    /\ jobStatus # NoStatus
    /\ isRunning
    /\ currentJobId # 0
    /\ currentJobId \notin csCancels
    /\ csCancels' = csCancels \cup {currentJobId}
    /\ SyncEvent("cancel_sent", {})
    /\ UNCHANGED <<formData, currentJobId, jobStatus, isRunning, reports, csStarts,
                   csPolls, csFetches, csJobs, csTerminal, csIssued>>
    /\ SyncFrame

\* the server cancels the job and handleCancel resumes (lines 127-128)
CancelSucceeds ==
    /\ \E job_id \in csCancels :
          /\ csCancels' = csCancels \ {job_id}
          /\ csJobs' = [csJobs EXCEPT ![job_id] =
                            IF @ = "running" THEN "cancelled" ELSE @]
          /\ SyncEvent("cancel_ok", {Toast("success", "component")})
    /\ isRunning' = FALSE
    /\ UNCHANGED <<formData, currentJobId, jobStatus, reports, csStarts, csPolls,
                   csFetches, csTerminal, csIssued>>
    /\ SyncFrame

\* the cancel request is rejected: the catch of handleCancel (lines 129-132)
CancelFails ==
    /\ \E job_id \in csCancels :
          /\ csCancels' = csCancels \ {job_id}
          /\ SyncEvent("cancel_failed",
                       {InterceptorToast, Toast("error", "component")})
    /\ UNCHANGED <<formData, currentJobId, jobStatus, isRunning, reports, csStarts,
                   csPolls, csFetches, csJobs, csTerminal, csIssued>>
    /\ SyncFrame

NextSync ==
    \/ HandleInputChange
    \/ HandleStart
    \/ StartSucceeds
    \/ StartFails
    \/ PollTick
    \/ StatusAnswered
    \/ JobEnds
    \/ PollResponse
    \/ PollFails
    \/ FetchReports
    \/ HandleCancel
    \/ CancelSucceeds
    \/ CancelFails

SpecSync == InitSync /\ [][NextSync]_vars

----------------------------------------------------------------------------
(* Claims about the Confluence sync view *)

TerminalStatuses == {"completed", "failed", "cancelled"}

\* this step handles the response, of the given status, of a poll of the job
PollHandled(job_id, status) ==
    LET poll == [job |-> job_id, reply |-> status]
    IN  CopiesIn(poll, csPolls') < CopiesIn(poll, csPolls)

\* this step issues a status poll of the job
PollIssued(job_id) ==
    LET poll == [job |-> job_id, reply |-> "pending"]
    IN  CopiesIn(poll, csPolls') > CopiesIn(poll, csPolls)

\* C21: a status poll is issued only for the current job while it is running;
\* the step that handles the first poll response whose status is completed,
\* failed or cancelled makes the running flag false and ends the polling, no
\* poll is issued for that job afterwards, and the reports are fetched only by
\* a step that handles a poll response of status completed.
C21_PollingStopsAtTerminalStatus ==
    [][\A job_id \in DOMAIN csJobs :
          /\ PollIssued(job_id) =>
                /\ job_id = currentJobId /\ isRunning
                /\ job_id \notin csTerminal
          /\ \A status \in TerminalStatuses :
                PollHandled(job_id, status) =>
                    /\ ~isRunning' /\ ~PollIntervalSet'
                    /\ jobStatus' = [job_id |-> job_id, status |-> status]
                    /\ job_id \in csTerminal'
          /\ job_id \in csFetches' \ csFetches => PollHandled(job_id, "completed")
          /\ job_id \in {reports'.failed, reports'.indexed, reports'.skipped} =>
                csJobs[job_id] = "completed"
      ]_vars

\* a job has completed after two polls, its reports are shown, polling has stopped
C21_Witness ==
    /\ csIssued.polls >= 2
    /\ currentJobId \in csTerminal
    /\ jobStatus = [job_id |-> currentJobId, status |-> "completed"]
    /\ ~isRunning
    /\ reports.indexed = currentJobId
    /\ csLast.op = "reports"

\* the four state variables the start handler may set
StartState == <<currentJobId, isRunning, jobStatus, reports>>

\* this step handles the response of a start request: the job created, or a failure
StartOk == Len(csJobs') > Len(csJobs)

StartFailed == csStarts' < csStarts /\ Len(csJobs') = Len(csJobs)

\* C22: while space_key and root_page_id are both empty no start request is
\* sent, and the click leaves currentJobId, isRunning, jobStatus and reports
\* unchanged; a failed start leaves the four unchanged; a successful start sets
\* the new job id, sets running to true and clears the status and the reports,
\* and nothing else changes the job id or sets running to true.
C22_OnlySuccessfulStartChangesState ==
    [][/\ formData.space_key = "" /\ formData.root_page_id = "" =>
             /\ csIssued'.starts = csIssued.starts
             /\ csStarts' <= csStarts
       /\ csLast'.op = "start_invalid" => StartState' = StartState
       /\ StartFailed => StartState' = StartState
       /\ StartOk =>
             /\ currentJobId' = Len(csJobs') /\ currentJobId' # currentJobId
             /\ isRunning'
             /\ jobStatus' = NoStatus
             /\ reports' = NoReports
       /\ currentJobId' # currentJobId => StartOk
       /\ isRunning' /\ ~isRunning => StartOk
      ]_vars

\* a second job has just been started after a terminal status of the first
\* one was shown
C22_Witness ==
    /\ csLast.op = "start_ok"
    /\ currentJobId = 2
    /\ 1 \in csTerminal
    /\ isRunning
    /\ jobStatus = NoStatus
    /\ reports = NoReports

\* the toasts of the last handler that are error toasts
ErrorToasts == {toast \in csLast.toasts : toast.level = "error"}

\* C23: a failed status poll raises no error toast, leaves currentJobId,
\* isRunning, jobStatus and reports unchanged, and leaves the poll interval
\* in place.
C23_FailedPollIsSilent ==
    [][\A job_id \in DOMAIN csJobs :
          PollHandled(job_id, "error") =>
              /\ ErrorToasts' = {}
              /\ StartState' = StartState
              /\ PollIntervalSet' = PollIntervalSet
      ]_vars

\* C26: the status shown is that of the most recently started job (jobStatus
\* is null or carries currentJobId), and the response of a poll of an earlier
\* job does not change the running flag.
C26_StatusOfCurrentJob ==
    [][/\ jobStatus' = NoStatus \/ jobStatus'.job_id = currentJobId'
       /\ \A job_id \in DOMAIN csJobs, status \in TerminalStatuses \cup {"running"} :
             PollHandled(job_id, status) /\ job_id # currentJobId =>
                 isRunning' = isRunning
      ]_vars

----------------------------------------------------------------------------
(* The chat message list *)

\* a request is in flight: the composer is disabled
AskInFlight == mutation = "loading"

\* C24: the message list only grows, by one message per step; user and
\* assistant messages alternate, starting with a user message; a question is
\* submitted only while no request is in flight and appends its user message
\* at once; the reply appends one assistant message, with the answer, its
\* citations and raw chunks on success and an error text without sources on
\* failure; a request is in flight exactly while the last message is a user
\* message.
C24_MessagesAlternate ==
    [][/\ \A i \in 1..Len(messages') :
             messages'[i].type = IF i % 2 = 1 THEN "user" ELSE "assistant"
       /\ AskInFlight' <=> Len(messages') % 2 = 1
       /\ messages' # messages =>
             /\ Len(messages') = Len(messages) + 1
             /\ SubSeq(messages', 1, Len(messages)) = messages
             /\ LET message == messages'[Len(messages')]
                IN  IF ~AskInFlight
                    THEN /\ AskInFlight'
                         /\ message = UserMessage(askRequest'.question)
                    ELSE /\ ~AskInFlight'
                         /\ \/ /\ mutation' = "success"
                               /\ askResponse.state = "ok"
                               /\ message.type = "assistant"
                               /\ message.content = askResponse.answer
                               /\ message.sources = SomeList(askResponse.citations)
                               /\ message.rawChunks = SomeList(askResponse.raw_chunks)
                            \/ /\ mutation' = "error"
                               /\ askResponse.state # "ok"
                               /\ message.type = "assistant"
                               /\ SubSeq(message.content, 1, Len(SorryPrefix)) = SorryPrefix
                               /\ message.sources = NoList
                               /\ message.rawChunks = NoList
      ]_vars

\* two questions were answered, the first with citations and raw chunks, the
\* second with an error text
C24_Witness ==
    /\ Len(messages) = 4
    /\ ~AskInFlight
    /\ messages[2].sources.present
    /\ Len(messages[2].sources.items) > 0
    /\ Len(messages[2].rawChunks.items) > 0
    /\ messages[4] = ErrorMessage(RequestFailedText)

----------------------------------------------------------------------------
(* Upload tab (components/features/studio/UploadTab.tsx)                   *)

\* line 56: the entries of the previous list that are kept, prev.slice(0, 4)
PrevKept == 4

FileNames == {"a.md", "b.md"}

\* what POST /ingest/upload returns for a file: the document id of its path
\* and the number of chunks indexed
UploadResponses(fileName) ==
    {[ok |-> TRUE, doc_id |-> <<"doc", fileName>>, chunks |-> chunks] : chunks \in {1, 2}}

\* onSuccess's result (lines 49-54); the timestamp is the arrival order
UploadResult(fileName, data, timestamp) ==
    [fileName |-> fileName, doc_id |-> data.doc_id, chunks |-> data.chunks,
     timestamp |-> timestamp]

\* the update of line 56 with the new result put last
RecentAfter_Appended(prev, result) ==
    SubSeq(prev, 1, Min(PrevKept, Len(prev))) \o <<result>>

\* the update of line 56: [result, ...prev.slice(0, 4)]
RecentAfter(prev, result) ==
    <<result>> \o SubSeq(prev, 1, Min(PrevKept, Len(prev)))

InitUpload ==
    /\ IdleUpload
    /\ IdleSync
    /\ IdleText /\ IdleMessage /\ IdleSearch /\ IdleChat /\ IdleHealth /\ IdleLayout
    /\ IdleKeys /\ IdleIngest /\ IdleStores

\* a file is chosen or dropped (lines 85-97, 145-151), or the choice is cleared
SelectFile ==
    /\ \E files \in {<<>>} \cup {<<fileName>> : fileName \in FileNames} :
          /\ files # selectedFiles
          /\ selectedFiles' = files
    /\ UNCHANGED <<recentUploads, upInflight, upSent, upReturned>>
    /\ UploadFrame

\* onSubmit (lines 68-73): without a file it returns, with one it starts the mutation
OnSubmit ==
    /\ IF Len(selectedFiles) = 0
       THEN UNCHANGED <<upInflight, upSent>>
       ELSE /\ upSent < MaxUploads
            /\ upSent' = upSent + 1
            /\ upInflight' = upInflight (+) SetToBag({selectedFiles[1]})
    /\ UNCHANGED <<recentUploads, selectedFiles, upReturned>>
    /\ UploadFrame

\* the upload is answered: onSuccess (lines 48-62)
UploadSucceeds ==
    /\ \E fileName \in BagToSet(upInflight) :
          /\ upInflight' = upInflight (-) SetToBag({fileName})
          /\ \E data \in UploadResponses(fileName) :
                LET result == UploadResult(fileName, data, Len(upReturned) + 1)
                IN  /\ recentUploads' = RecentAfter(recentUploads, result)
                    /\ upReturned' = Append(upReturned, result)
    /\ selectedFiles' = <<>>
    /\ UNCHANGED upSent
    /\ UploadFrame

\* the upload is rejected: onError (lines 63-65)
UploadFails ==
    /\ \E fileName \in BagToSet(upInflight) :
          upInflight' = upInflight (-) SetToBag({fileName})
    /\ UNCHANGED <<recentUploads, selectedFiles, upSent, upReturned>>
    /\ UploadFrame

NextUpload ==
    \/ SelectFile
    \/ OnSubmit
    \/ UploadSucceeds
    \/ UploadFails

SpecUpload == InitUpload /\ [][NextUpload]_vars

----------------------------------------------------------------------------
(* Claims about the upload tab *)

\* the i-th latest successful upload
LatestUpload(i) == upReturned[Len(upReturned) - i + 1]

\* C25: the Recent Uploads list holds at most 5 entries, newest first, each
\* with the doc_id and chunk count returned for its upload; the list changes
\* only when an upload succeeds (not when one fails, not on a submit without a
\* file), and a submit without a file sends no request.
C25_RecentUploadsNewestFive ==
    [][/\ Len(recentUploads') = Min(5, Len(upReturned'))
       /\ \A i \in 1..Len(recentUploads') :
             /\ recentUploads'[i] = LatestUpload(i)'
             /\ i > 1 => recentUploads'[i - 1].timestamp > recentUploads'[i].timestamp
       /\ recentUploads' # recentUploads => Len(upReturned') = Len(upReturned) + 1
       /\ Len(upReturned') = Len(upReturned) => recentUploads' = recentUploads
       /\ Len(selectedFiles) = 0 => upSent' = upSent /\ BagCardinality(upInflight') <= BagCardinality(upInflight)
      ]_vars

\* six uploads succeeded: the first has left the list, the last heads it
C25_Witness ==
    /\ Len(upReturned) = 6
    /\ Len(recentUploads) = 5
    /\ recentUploads[1] = upReturned[6]
    /\ recentUploads[5] = upReturned[2]
    /\ recentUploads[1].doc_id # recentUploads[2].doc_id
    /\ recentUploads[1].chunks # recentUploads[3].chunks

----------------------------------------------------------------------------
(* The list shown under a question *)

\* the chunk ids of a list of chunks or result cards
ChunkIds(list) == [i \in 1..Len(list) |-> list[i].chunk_id]

\* C27: whenever the Search page shows a result list under a question, the
\* response to that question has arrived and the list shown is that response;
\* the chunks returned for an earlier question are not shown under a new one
\* while its request is in flight or after it has failed.
C27_ListAnswersTheQuestionShown ==
    ShownResults.view = "results" =>
        /\ ShownResults.query = searchState.query.question
        /\ qCache[searchState.query].status = "success"
        /\ ChunkIds(ShownResults.items) = ChunkIds(qCache[searchState.query].chunks)

====
